---- MODULE Spec2Model ----
(***************************************************************************)
(* Cosori kettle BLE protocol engine: frame codec (Envelope), payload      *)
(* builders and status parsers (protocol), and the command state machine   *)
(* with its chunked send session (CosoriKettleState).                      *)
(*                                                                         *)
(* Bytes are integers 0..255.  C arrays are TLA+ sequences; the C index i  *)
(* is the TLA+ index i+1 (see At).                                         *)
(***************************************************************************)
EXTENDS Integers, Sequences, FiniteSets, TLC

(***************************************************************************)
(* Program constants                                                       *)
(***************************************************************************)
FRAME_MAGIC == 165
MESSAGE_HEADER_TYPE == 34
ACK_HEADER_TYPE == 18
BLE_CHUNK_SIZE == 20
ENVELOPE_BUFFER_SIZE == 512

MAX_FRAME_BUFFER_SIZE == 512
MAX_PAYLOAD_SIZE == 256
HANDSHAKE_TIMEOUT_MS == 5000
PRE_SETPOINT_DELAY_MS == 60
POST_SETPOINT_DELAY_MS == 100
CONTROL_DELAY_MS == 50
IDLE_TIMEOUT_MS == 30000
NO_RESPONSE_THRESHOLD == 10

CMD_REGISTER == 128
CMD_HELLO == 129
CMD_POLL == 64
CMD_CTRL == 65
CMD_SET_MODE == 240
CMD_SET_HOLD_TIME == 242
CMD_SET_MY_TEMP == 243
CMD_STOP == 244
CMD_SET_BABY_FORMULA == 245
CMD_TYPE_D1 == 209
CMD_TYPE_A3 == 163
CMD_TYPE_40 == 64

MIN_TEMP_F == 104
MAX_TEMP_F == 212
MIN_VALID_READING_F == 40
MAX_VALID_READING_F == 230

MODE_BOIL == 4
MODE_HEAT == 6
MODE_GREEN_TEA == 1
MODE_GREEN_TEA_F == 180
MODE_OOLONG == 2
MODE_OOLONG_F == 195
MODE_COFFEE == 3
MODE_COFFEE_F == 205
MODE_MY_TEMP == 5

\* 2^8 and 2^32: uint8_t and uint32_t arithmetic wraps
U8 == 2^8

\* buffer[i] with the C (0-based) index
At(buf, i) == buf[i + 1]

\* buffer + off, len: the bytes buf[off] .. buf[off+len-1] (0-based)
Slice(buf, off, len) == SubSeq(buf, off + 1, off + len)

(***************************************************************************)
(* Envelope (envelope.h).  An Envelope is [buf, pos]: buf holds the size_  *)
(* valid bytes of buffer_, pos is the read cursor pos_.                    *)
(***************************************************************************)
EmptyEnvelope == [buf |-> <<>>, pos |-> 0]

clear(env) == [buf |-> <<>>, pos |-> 0]

\* append(): refuses (and changes nothing) when the capacity would be exceeded
append(env, data) ==
  IF Len(env.buf) + Len(data) > ENVELOPE_BUFFER_SIZE
  THEN [ok |-> FALSE, env |-> env]
  ELSE [ok |-> TRUE, env |-> [env EXCEPT !.buf = env.buf \o data]]

\* the v1 loop of calculate_checksum, checksum = (checksum - byte) & 0xFF starting from
\* 0, over the bytes lo..hi-1 with the checksum position (5) read as 0x01.  The loop
\* only ever subtracts modulo 2^8, so the value after a range is the sum, modulo 2^8, of
\* the values after its two halves
RECURSIVE ChecksumV1Loop(_, _, _)
ChecksumV1Loop(buffer, lo, hi) ==
  IF lo >= hi THEN 0
  ELSE IF hi - lo = 1
  THEN LET byte == IF lo = 5 THEN 1 ELSE At(buffer, lo)
       IN (0 - byte) % U8
  ELSE LET mid == (lo + hi) \div 2
       IN (ChecksumV1Loop(buffer, lo, mid) + ChecksumV1Loop(buffer, mid, hi)) % U8

\* calculate_checksum() that always sums the header only
calculate_checksum_header_only(buffer) ==
  IF Len(buffer) < 6 THEN 0
  ELSE (FRAME_MAGIC + At(buffer, 1) + At(buffer, 2) + At(buffer, 3) + At(buffer, 4)) % U8

calculate_checksum(buffer) ==
  LET is_v1 == Len(buffer) > 6 /\ At(buffer, 6) = 1
  IN IF is_v1 THEN ChecksumV1Loop(buffer, 0, Len(buffer))
     ELSE IF Len(buffer) < 6 THEN 0
     ELSE (FRAME_MAGIC + At(buffer, 1) + At(buffer, 2) + At(buffer, 3) + At(buffer, 4)) % U8

\* build() without the final checksum store: header byte 5 keeps the 0x01 placeholder
build_no_checksum(env, frame_type, seq, payload) ==
  IF 6 + Len(payload) > ENVELOPE_BUFFER_SIZE
  THEN [ok |-> FALSE, env |-> env]
  ELSE [ok |-> TRUE,
        env |-> [buf |-> <<FRAME_MAGIC, frame_type, seq, Len(payload) % U8,
                           (Len(payload) \div U8) % U8, 1>> \o payload,
                 pos |-> 0]]

build(env, frame_type, seq, payload) ==
  IF 6 + Len(payload) > ENVELOPE_BUFFER_SIZE
  THEN [ok |-> FALSE, env |-> env]
  ELSE LET raw == <<FRAME_MAGIC, frame_type, seq, Len(payload) % U8,
                    (Len(payload) \div U8) % U8, 1>> \o payload
       IN [ok |-> TRUE,
           env |-> [buf |-> [raw EXCEPT ![6] = calculate_checksum(raw)], pos |-> 0]]

set_message_payload(env, seq, payload) == build(env, MESSAGE_HEADER_TYPE, seq, payload)

set_ack_payload(env, seq, payload) == build(env, ACK_HEADER_TYPE, seq, payload)

\* get_chunk_data(): the chunk's bytes; <<>> stands for (nullptr, chunk_size 0)
get_chunk_data(env, chunk_index) ==
  LET offset == chunk_index * BLE_CHUNK_SIZE
      size == Len(env.buf)
  IN IF offset >= size THEN <<>>
     ELSE Slice(env.buf, offset,
                IF offset + BLE_CHUNK_SIZE <= size THEN BLE_CHUNK_SIZE ELSE size - offset)

\* get_chunk_count() that rounds down
get_chunk_count_floor(env) ==
  IF Len(env.buf) = 0 THEN 0
  ELSE Len(env.buf) \div BLE_CHUNK_SIZE

get_chunk_count(env) ==
  IF Len(env.buf) = 0 THEN 0
  ELSE (Len(env.buf) + BLE_CHUNK_SIZE - 1) \div BLE_CHUNK_SIZE

find_frame_start(env) ==
  LET found == {i \in env.pos..(Len(env.buf) - 1) : At(env.buf, i) = FRAME_MAGIC}
  IN IF found = {} THEN Len(env.buf)
     ELSE CHOOSE i \in found : \A j \in found : i <= j

\* validate_frame_header_at_pos(): false when fewer than 6 bytes are buffered
\* at pos_ or the byte at pos_ is not the magic
validate_frame_header_at_pos(env) ==
  IF env.pos + 6 > Len(env.buf) THEN [ok |-> FALSE]
  ELSE IF At(env.buf, env.pos) # FRAME_MAGIC THEN [ok |-> FALSE]
  ELSE [ok |-> TRUE,
        frame_type |-> At(env.buf, env.pos + 1),
        seq |-> At(env.buf, env.pos + 2),
        payload_len |-> At(env.buf, env.pos + 3) + At(env.buf, env.pos + 4) * U8,
        checksum |-> At(env.buf, env.pos + 5)]

\* FrameInfo.  payload is the pointer buffer_ + pos_ + 6, modelled as the
\* buffered bytes from that offset on; payload_len of them belong to the frame.
NoFrame == [valid |-> FALSE, frame_type |-> 0, seq |-> 0, payload_len |-> 0, payload |-> <<>>]

\* process_next_frame() with the cursor advanced by the payload only
RECURSIVE process_next_frame_short_advance(_, _)
process_next_frame_short_advance(env, max_payload_size) ==
  LET frame_start == find_frame_start(env)
      size == Len(env.buf)
  IN IF frame_start >= size
     THEN [env |-> [env EXCEPT !.pos = size], info |-> NoFrame]
     ELSE LET e == [env EXCEPT !.pos = frame_start]
              h == validate_frame_header_at_pos(e)
          IN IF ~h.ok
             THEN process_next_frame_short_advance([e EXCEPT !.pos = @ + 1], max_payload_size)
             ELSE IF h.payload_len > max_payload_size
             THEN process_next_frame_short_advance([e EXCEPT !.pos = @ + 1], max_payload_size)
             ELSE IF e.pos + 6 + h.payload_len > size
             THEN [env |-> e, info |-> NoFrame]
             ELSE IF h.checksum # calculate_checksum(Slice(e.buf, e.pos, 6 + h.payload_len))
             THEN process_next_frame_short_advance([e EXCEPT !.pos = @ + 1], max_payload_size)
             ELSE [env |-> [e EXCEPT !.pos = @ + h.payload_len],
                   info |-> [valid |-> TRUE, frame_type |-> h.frame_type, seq |-> h.seq,
                             payload_len |-> h.payload_len,
                             payload |-> Slice(e.buf, e.pos + 6, size - (e.pos + 6))]]

\* process_next_frame() that steps over the whole candidate when its checksum is wrong
RECURSIVE process_next_frame_skip_rejected(_, _)
process_next_frame_skip_rejected(env, max_payload_size) ==
  LET frame_start == find_frame_start(env)
      size == Len(env.buf)
  IN IF frame_start >= size
     THEN [env |-> [env EXCEPT !.pos = size], info |-> NoFrame]
     ELSE LET e == [env EXCEPT !.pos = frame_start]
              h == validate_frame_header_at_pos(e)
          IN IF ~h.ok
             THEN process_next_frame_skip_rejected([e EXCEPT !.pos = @ + 1], max_payload_size)
             ELSE IF h.payload_len > max_payload_size
             THEN process_next_frame_skip_rejected([e EXCEPT !.pos = @ + 1], max_payload_size)
             ELSE IF e.pos + 6 + h.payload_len > size
             THEN [env |-> e, info |-> NoFrame]
             ELSE IF h.checksum # calculate_checksum(Slice(e.buf, e.pos, 6 + h.payload_len))
             THEN process_next_frame_skip_rejected([e EXCEPT !.pos = @ + 6 + h.payload_len],
                                                   max_payload_size)
             ELSE [env |-> [e EXCEPT !.pos = @ + 6 + h.payload_len],
                   info |-> [valid |-> TRUE, frame_type |-> h.frame_type, seq |-> h.seq,
                             payload_len |-> h.payload_len,
                             payload |-> Slice(e.buf, e.pos + 6, size - (e.pos + 6))]]

RECURSIVE process_next_frame(_, _)
process_next_frame(env, max_payload_size) ==
  LET frame_start == find_frame_start(env)
      size == Len(env.buf)
  IN IF frame_start >= size
     THEN [env |-> [env EXCEPT !.pos = size], info |-> NoFrame]
     ELSE LET e == [env EXCEPT !.pos = frame_start]
              h == validate_frame_header_at_pos(e)
          IN IF ~h.ok
             THEN process_next_frame([e EXCEPT !.pos = @ + 1], max_payload_size)
             ELSE IF h.payload_len > max_payload_size
             THEN process_next_frame([e EXCEPT !.pos = @ + 1], max_payload_size)
             ELSE IF e.pos + 6 + h.payload_len > size
             THEN [env |-> e, info |-> NoFrame]
             ELSE IF h.checksum # calculate_checksum(Slice(e.buf, e.pos, 6 + h.payload_len))
             THEN process_next_frame([e EXCEPT !.pos = @ + 1], max_payload_size)
             ELSE [env |-> [e EXCEPT !.pos = @ + 6 + h.payload_len],
                   info |-> [valid |-> TRUE, frame_type |-> h.frame_type, seq |-> h.seq,
                             payload_len |-> h.payload_len,
                             payload |-> Slice(e.buf, e.pos + 6, size - (e.pos + 6))]]

\* compact() that moves the bytes from one past the cursor
compact_from_next(env) ==
  IF env.pos = 0 THEN env
  ELSE IF env.pos >= Len(env.buf) THEN clear(env)
  ELSE [buf |-> Slice(env.buf, env.pos + 1, Len(env.buf) - env.pos - 1), pos |-> 0]

compact(env) ==
  IF env.pos = 0 THEN env
  ELSE IF env.pos >= Len(env.buf) THEN clear(env)
  ELSE [buf |-> Slice(env.buf, env.pos, Len(env.buf) - env.pos), pos |-> 0]

(***************************************************************************)
(* Payload builders and status parsers (protocol.cpp).  The builders are   *)
(* only ever called with a real output buffer, so each returns its bytes.  *)
(***************************************************************************)
RegistrationKey == <<153, 3, 224, 26, 60, 59, 170, 143, 108, 113, 203, 181, 22, 126, 125, 95>>

\* hex_chars[n] for a nibble n: '0'..'9', 'a'..'f'
HexChar(n) == IF n < 10 THEN 48 + n ELSE 97 + (n - 10)

RECURSIVE HexKey(_, _)
HexKey(registration_key, i) ==
  IF i >= Len(registration_key) THEN <<>>
  ELSE <<HexChar((At(registration_key, i) \div 16) % 16), HexChar(At(registration_key, i) % 16)>>
       \o HexKey(registration_key, i + 1)

build_hello_payload(protocol_version, registration_key) ==
  <<protocol_version, CMD_HELLO, CMD_TYPE_D1, 0>> \o HexKey(registration_key, 0)

build_register_payload(protocol_version, registration_key) ==
  <<protocol_version, CMD_REGISTER, CMD_TYPE_D1, 0>> \o HexKey(registration_key, 0)

build_status_request_payload(protocol_version) ==
  <<protocol_version, CMD_POLL, CMD_TYPE_40, 0>>

build_compact_status_request_payload(protocol_version) ==
  <<protocol_version, CMD_CTRL, CMD_TYPE_40, 0>>

ClampTemp(temp_f) ==
  IF temp_f < MIN_TEMP_F THEN MIN_TEMP_F
  ELSE IF temp_f > MAX_TEMP_F THEN MAX_TEMP_F
  ELSE temp_f

build_set_my_temp_payload(protocol_version, temp_f) ==
  <<protocol_version, CMD_SET_MY_TEMP, CMD_TYPE_A3, 0, ClampTemp(temp_f)>>

build_set_baby_formula_payload(protocol_version, enabled) ==
  <<protocol_version, CMD_SET_BABY_FORMULA, CMD_TYPE_A3, 0, IF enabled THEN 1 ELSE 0>>

build_set_hold_time_payload(protocol_version, seconds) ==
  <<protocol_version, CMD_SET_HOLD_TIME, CMD_TYPE_A3, 0, 0,
    IF seconds > 0 THEN 1 ELSE 0, (seconds \div U8) % U8, seconds % U8>>

build_set_mode_payload(protocol_version, mode, temp_f, hold_time_seconds) ==
  <<protocol_version, CMD_SET_MODE, CMD_TYPE_A3, 0, mode, temp_f,
    IF hold_time_seconds > 0 THEN 1 ELSE 0,
    (hold_time_seconds \div U8) % U8, hold_time_seconds % U8>>

build_stop_payload(protocol_version) ==
  <<protocol_version, CMD_STOP, CMD_TYPE_A3, 0>>

InvalidCompactStatus == [valid |-> FALSE, stage |-> 0, mode |-> 0, setpoint |-> 0, temp |-> 0]

\* parse_compact_status() whose temperature range excludes its two ends
parse_compact_status_exclusive(payload, len) ==
  IF len < 9 \/ At(payload, 1) # CMD_CTRL THEN InvalidCompactStatus
  ELSE IF At(payload, 7) <= MIN_VALID_READING_F \/ At(payload, 7) >= MAX_VALID_READING_F
  THEN InvalidCompactStatus
  ELSE [valid |-> TRUE, stage |-> At(payload, 4), mode |-> At(payload, 5),
        setpoint |-> At(payload, 6), temp |-> At(payload, 7)]

\* parse_compact_status(payload, len): payload is the pointer view, len the frame's payload_len
parse_compact_status(payload, len) ==
  IF len < 9 \/ At(payload, 1) # CMD_CTRL THEN InvalidCompactStatus
  ELSE IF At(payload, 7) < MIN_VALID_READING_F \/ At(payload, 7) > MAX_VALID_READING_F
  THEN InvalidCompactStatus
  ELSE [valid |-> TRUE, stage |-> At(payload, 4), mode |-> At(payload, 5),
        setpoint |-> At(payload, 6), temp |-> At(payload, 7)]

InvalidExtendedStatus ==
  [valid |-> FALSE, stage |-> 0, mode |-> 0, setpoint |-> 0, temp |-> 0, my_temp |-> 0,
   configured_hold_time |-> 0, remaining_hold_time |-> 0, on_base |-> FALSE,
   baby_formula_enabled |-> FALSE]

\* parse_extended_status(payload, len), filling the ExtendedStatus of protocol.h:
\* the length and temperature checks and the my_temp, on-base and baby-formula
\* fields as protocol.cpp decodes them; the configured and remaining hold time
\* as test_state.cpp expects them (payload 10-11 and 12-13, low byte first)
parse_extended_status(payload, len) ==
  IF len < 8 \/ At(payload, 1) # CMD_POLL THEN InvalidExtendedStatus
  ELSE IF At(payload, 7) < MIN_VALID_READING_F \/ At(payload, 7) > MAX_VALID_READING_F
  THEN InvalidExtendedStatus
  ELSE [valid |-> TRUE, stage |-> At(payload, 4), mode |-> At(payload, 5),
        setpoint |-> At(payload, 6), temp |-> At(payload, 7),
        my_temp |-> IF len >= 9 /\ At(payload, 8) >= MIN_TEMP_F /\ At(payload, 8) <= MAX_TEMP_F
                    THEN At(payload, 8) ELSE 0,
        configured_hold_time |-> IF len >= 12 THEN At(payload, 10) + At(payload, 11) * U8 ELSE 0,
        remaining_hold_time |-> IF len >= 14 THEN At(payload, 12) + At(payload, 13) * U8 ELSE 0,
        on_base |-> len >= 15 /\ At(payload, 14) = 0,
        baby_formula_enabled |-> len >= 29 /\ At(payload, 28) = 1]

(***************************************************************************)
(* CosoriKettleState (cosori_kettle_state.h/.cpp)                          *)
(***************************************************************************)
VARIABLES
  config_, state_, send_data_callback_,
  last_rx_seq_, tx_seq_, last_ack_error_code_,
  waiting_for_ack_complete_, waiting_for_ack_seq_, last_status_seq_,
  send_buffer_, recv_buffer_,
  send_chunk_index_, send_total_chunks_, waiting_for_write_ack_,
  pending_hold_time_, pending_my_temp_, pending_baby_formula_,
  command_state_, command_state_time_, pending_mode_, pending_temp_f_,
  use_register_command_,
  \* the transport and the clock around the engine
  now,            \* the clock: the now_ms the next update() call is given
  inflight,       \* chunk writes handed to the transport and not yet completed
  frame_handed,   \* the chunks handed to the transport since the send buffer was last built
  acked,          \* how many of them the transport has completed successfully
  cmd_log,        \* send_command calls of the running command sequence
  \* the codec specifications
  build_in,       \* the frames (and garbage) the byte stream is made of
  stream,         \* the byte stream still to be delivered
  fed,            \* bytes delivered (split) or process_next_frame calls made (resync)
  env,            \* a stand-alone Envelope
  dispatched      \* the frames extracted so far

vars ==
  <<config_, state_, send_data_callback_, last_rx_seq_, tx_seq_, last_ack_error_code_,
    waiting_for_ack_complete_, waiting_for_ack_seq_, last_status_seq_,
    send_buffer_, recv_buffer_, send_chunk_index_, send_total_chunks_,
    waiting_for_write_ack_, pending_hold_time_, pending_my_temp_, pending_baby_formula_,
    command_state_, command_state_time_, pending_mode_, pending_temp_f_,
    use_register_command_, now, inflight, frame_handed, acked, cmd_log,
    build_in, stream, fed, env, dispatched>>

\* The engine as one record k, so that a method is an operator from k to k.
\* sends and frames are local to one operation: the send_command calls it made
\* ([cmd, seq, ok, state]) and the frames it dispatched.
K ==
  [config_ |-> config_, state_ |-> state_, send_data_callback_ |-> send_data_callback_,
   last_rx_seq_ |-> last_rx_seq_, tx_seq_ |-> tx_seq_,
   last_ack_error_code_ |-> last_ack_error_code_,
   waiting_for_ack_complete_ |-> waiting_for_ack_complete_,
   waiting_for_ack_seq_ |-> waiting_for_ack_seq_, last_status_seq_ |-> last_status_seq_,
   send_buffer_ |-> send_buffer_, recv_buffer_ |-> recv_buffer_,
   send_chunk_index_ |-> send_chunk_index_, send_total_chunks_ |-> send_total_chunks_,
   waiting_for_write_ack_ |-> waiting_for_write_ack_,
   pending_hold_time_ |-> pending_hold_time_, pending_my_temp_ |-> pending_my_temp_,
   pending_baby_formula_ |-> pending_baby_formula_,
   command_state_ |-> command_state_, command_state_time_ |-> command_state_time_,
   pending_mode_ |-> pending_mode_, pending_temp_f_ |-> pending_temp_f_,
   use_register_command_ |-> use_register_command_,
   inflight |-> inflight, frame_handed |-> frame_handed, acked |-> acked,
   sends |-> <<>>, frames |-> <<>>]

KettleState0 ==
  [current_temp_f |-> 0, kettle_setpoint_f |-> 0, target_setpoint_f |-> 212,
   hold_time_seconds |-> 0, remaining_hold_time_seconds |-> 0, my_temp_f |-> 179,
   baby_formula_enabled |-> FALSE, on_base |-> FALSE, heating |-> FALSE,
   status_received |-> FALSE, no_response_count |-> 0]

CommandStates ==
  {"IDLE", "HANDSHAKE_START", "HANDSHAKE_WAIT_CHUNKS", "HANDSHAKE_POLL", "HEAT_START",
   "HEAT_SET_TEMP", "HEAT_POLL", "HEAT_POLL_REPEAT", "HEAT_COMPLETE", "STOP", "STOP_POLL",
   "STOP_REPEAT"}

\* reset() that also returns the kettle state to its initial values
reset_forgets_intent(k) ==
  [k EXCEPT !.recv_buffer_ = clear(@),
            !.state_ = KettleState0,
            !.send_chunk_index_ = 0,
            !.send_total_chunks_ = 0,
            !.waiting_for_write_ack_ = FALSE]

reset(k) ==
  [k EXCEPT !.recv_buffer_ = clear(@),
            !.state_.status_received = FALSE,
            !.state_.no_response_count = 0,
            !.send_chunk_index_ = 0,
            !.send_total_chunks_ = 0,
            !.waiting_for_write_ack_ = FALSE]

\* send_data_callback_(chunk_data, chunk_size): the transport takes one chunk write
send_data_callback(k, chunk) ==
  [k EXCEPT !.inflight = @ + 1, !.frame_handed = Append(@, chunk)]

\* send_next_chunk() handing over the chunk after the current one
send_next_chunk_skip(k) ==
  IF k.send_chunk_index_ >= k.send_total_chunks_
  THEN [k EXCEPT !.send_chunk_index_ = 0, !.send_total_chunks_ = 0,
                 !.waiting_for_write_ack_ = FALSE]
  ELSE LET chunk == get_chunk_data(k.send_buffer_, k.send_chunk_index_ + 1)
       IN IF chunk = <<>>
          THEN [k EXCEPT !.send_chunk_index_ = 0, !.send_total_chunks_ = 0,
                         !.waiting_for_write_ack_ = FALSE]
          ELSE IF k.send_data_callback_
          THEN send_data_callback([k EXCEPT !.waiting_for_write_ack_ = TRUE], chunk)
          ELSE [k EXCEPT !.waiting_for_write_ack_ = FALSE]

send_next_chunk(k) ==
  IF k.send_chunk_index_ >= k.send_total_chunks_
  THEN [k EXCEPT !.send_chunk_index_ = 0, !.send_total_chunks_ = 0,
                 !.waiting_for_write_ack_ = FALSE]
  ELSE LET chunk == get_chunk_data(k.send_buffer_, k.send_chunk_index_)
       IN IF chunk = <<>>
          THEN [k EXCEPT !.send_chunk_index_ = 0, !.send_total_chunks_ = 0,
                         !.waiting_for_write_ack_ = FALSE]
          ELSE IF k.send_data_callback_
          THEN send_data_callback([k EXCEPT !.waiting_for_write_ack_ = TRUE], chunk)
          ELSE [k EXCEPT !.waiting_for_write_ack_ = FALSE]

\* One send_command call, noted for the operation that made it
Sent(k, seq, payload, ok) ==
  [k EXCEPT !.sends = Append(@, [cmd |-> At(payload, 1), seq |-> seq, ok |-> ok,
                                 state |-> k.command_state_])]

\* send_command() without the busy checks
send_command_no_busy_check(k, seq, payload, is_ack) ==
  LET b == IF is_ack THEN set_ack_payload(k.send_buffer_, seq, payload)
           ELSE set_message_payload(k.send_buffer_, seq, payload)
  IN IF ~b.ok THEN [k |-> Sent(k, seq, payload, FALSE), ret |-> FALSE]
     ELSE LET k1 == [k EXCEPT !.send_buffer_ = b.env,
                              !.send_total_chunks_ = get_chunk_count(b.env)]
          IN IF k1.send_total_chunks_ = 0
             THEN [k |-> Sent(k1, seq, payload, FALSE), ret |-> FALSE]
             ELSE [k |-> send_next_chunk(
                           Sent([k1 EXCEPT !.send_chunk_index_ = 0,
                                           !.waiting_for_write_ack_ = FALSE,
                                           !.frame_handed = <<>>, !.acked = 0],
                                seq, payload, TRUE)),
                   ret |-> TRUE]

\* send_command(): [k, ret]
send_command(k, seq, payload, is_ack) ==
  IF k.waiting_for_write_ack_ THEN [k |-> Sent(k, seq, payload, FALSE), ret |-> FALSE]
  ELSE IF k.send_chunk_index_ < k.send_total_chunks_
  THEN [k |-> Sent(k, seq, payload, FALSE), ret |-> FALSE]
  ELSE LET b == IF is_ack THEN set_ack_payload(k.send_buffer_, seq, payload)
                ELSE set_message_payload(k.send_buffer_, seq, payload)
       IN IF ~b.ok THEN [k |-> Sent(k, seq, payload, FALSE), ret |-> FALSE]
          ELSE LET k1 == [k EXCEPT !.send_buffer_ = b.env,
                                   !.send_total_chunks_ = get_chunk_count(b.env)]
               IN IF k1.send_total_chunks_ = 0
                  THEN [k |-> Sent(k1, seq, payload, FALSE), ret |-> FALSE]
                  ELSE [k |-> send_next_chunk(
                                Sent([k1 EXCEPT !.send_chunk_index_ = 0,
                                                !.waiting_for_write_ack_ = FALSE,
                                                !.frame_handed = <<>>, !.acked = 0],
                                     seq, payload, TRUE)),
                        ret |-> TRUE]

\* on_write_ack() that keeps the session after a failed write
on_write_ack_keep_on_failure(k, success) ==
  IF ~k.waiting_for_write_ack_ THEN k
  ELSE IF success
  THEN send_next_chunk([k EXCEPT !.send_chunk_index_ = @ + 1,
                                 !.waiting_for_write_ack_ = FALSE,
                                 !.acked = @ + 1])
  ELSE send_next_chunk([k EXCEPT !.waiting_for_write_ack_ = FALSE])

on_write_ack(k, success) ==
  IF ~k.waiting_for_write_ack_ THEN k
  ELSE IF success
  THEN send_next_chunk([k EXCEPT !.send_chunk_index_ = @ + 1,
                                 !.waiting_for_write_ack_ = FALSE,
                                 !.acked = @ + 1])
  ELSE [k EXCEPT !.send_chunk_index_ = 0, !.send_total_chunks_ = 0,
                 !.waiting_for_write_ack_ = FALSE]

\* next_tx_seq(): the value returned is the new tx_seq_
next_tx_seq(k) ==
  IF k.tx_seq_ = 0 /\ k.last_rx_seq_ # 0
  THEN [k EXCEPT !.tx_seq_ = (k.last_rx_seq_ + 1) % U8]
  ELSE [k EXCEPT !.tx_seq_ = (k.tx_seq_ + 1) % U8]

\* The senders.  A builder's payload_len == 0 exit is kept as Len(payload) = 0.
SendWithNextSeq(k, payload) ==
  LET k1 == next_tx_seq(k)
  IN IF Len(payload) = 0 THEN k1 ELSE send_command(k1, k1.tx_seq_, payload, FALSE).k

send_status_request(k) ==
  SendWithNextSeq(k, build_status_request_payload(k.config_.protocol_version))

send_set_my_temp(k, temp_f) ==
  SendWithNextSeq(k, build_set_my_temp_payload(k.config_.protocol_version, temp_f))

send_set_baby_formula(k, enabled) ==
  SendWithNextSeq(k, build_set_baby_formula_payload(k.config_.protocol_version, enabled))

send_set_hold_time(k, seconds) ==
  SendWithNextSeq(k, build_set_hold_time_payload(k.config_.protocol_version, seconds))

send_set_mode(k, mode, temp_f) ==
  LET v1 == k.config_.protocol_version = 1
      mode1 == IF v1 /\ mode = MODE_HEAT THEN MODE_BOIL ELSE mode
      temp1 == IF v1 /\ mode1 # MODE_MY_TEMP THEN 0 ELSE temp_f
  IN SendWithNextSeq(k, build_set_mode_payload(k.config_.protocol_version, mode1, temp1,
                                               k.state_.hold_time_seconds))

send_stop(k) == SendWithNextSeq(k, build_stop_payload(k.config_.protocol_version))

send_request_compact_status(k, seq_base) ==
  LET payload == build_compact_status_request_payload(k.config_.protocol_version)
  IN IF Len(payload) = 0 THEN k ELSE send_command(k, seq_base, payload, TRUE).k

\* The byte payload[i] of a dispatched frame
PayloadAt(frame, i) == At(frame.payload, i)

reset_online_status(k) == [k EXCEPT !.state_.no_response_count = 0]

\* track_online_status() that counts without a cap
track_online_status_no_cap(k) ==
  LET k1 == [k EXCEPT !.state_.no_response_count = @ + 1]
  IN IF k1.state_.no_response_count >= NO_RESPONSE_THRESHOLD /\ k1.state_.status_received
     THEN [k1 EXCEPT !.state_.status_received = FALSE] ELSE k1

track_online_status(k) ==
  LET k1 == IF k.state_.no_response_count < NO_RESPONSE_THRESHOLD
            THEN [k EXCEPT !.state_.no_response_count = @ + 1] ELSE k
  IN IF k1.state_.no_response_count >= NO_RESPONSE_THRESHOLD /\ k1.state_.status_received
     THEN [k1 EXCEPT !.state_.status_received = FALSE] ELSE k1

\* CosoriKettleState::parse_compact_status that also reports the kettle off its base
CosoriKettleState_parse_compact_status_off_base(k, payload, len) ==
  LET status == parse_compact_status(payload, len)
  IN IF ~status.valid THEN k
     ELSE reset_online_status(
            [k EXCEPT !.state_.current_temp_f = status.temp,
                      !.state_.kettle_setpoint_f = status.setpoint,
                      !.state_.heating = (status.stage # 0),
                      !.state_.status_received = TRUE,
                      !.state_.on_base = FALSE,
                      !.last_status_seq_ = k.last_rx_seq_])

\* CosoriKettleState::parse_compact_status that applies the status without looking at valid
CosoriKettleState_parse_compact_status_unchecked(k, payload, len) ==
  LET status == parse_compact_status(payload, len)
  IN reset_online_status(
       [k EXCEPT !.state_.current_temp_f = status.temp,
                 !.state_.kettle_setpoint_f = status.setpoint,
                 !.state_.heating = (status.stage # 0),
                 !.state_.status_received = TRUE,
                 !.last_status_seq_ = k.last_rx_seq_])

\* CosoriKettleState::parse_compact_status
CosoriKettleState_parse_compact_status(k, payload, len) ==
  LET status == parse_compact_status(payload, len)
  IN IF ~status.valid THEN k
     ELSE reset_online_status(
            [k EXCEPT !.state_.current_temp_f = status.temp,
                      !.state_.kettle_setpoint_f = status.setpoint,
                      !.state_.heating = (status.stage # 0),
                      !.state_.status_received = TRUE,
                      !.last_status_seq_ = k.last_rx_seq_])

\* parse_status_ack() that applies the status to every field, pending or not
parse_status_ack_no_pending(k, payload, len) ==
  LET status == parse_extended_status(payload, len)
  IN IF ~status.valid THEN k
     ELSE reset_online_status(
            [k EXCEPT !.state_.current_temp_f = status.temp,
                      !.state_.kettle_setpoint_f = status.setpoint,
                      !.state_.heating = (status.stage # 0),
                      !.state_.status_received = TRUE,
                      !.last_status_seq_ = k.last_rx_seq_,
                      !.state_.on_base = status.on_base,
                      !.state_.remaining_hold_time_seconds = status.remaining_hold_time,
                      !.state_.my_temp_f = status.my_temp,
                      !.state_.hold_time_seconds = status.configured_hold_time,
                      !.state_.baby_formula_enabled = status.baby_formula_enabled])

\* CosoriKettleState::parse_status_ack
parse_status_ack(k, payload, len) ==
  LET status == parse_extended_status(payload, len)
  IN IF ~status.valid THEN k
     ELSE reset_online_status(
            [k EXCEPT !.state_.current_temp_f = status.temp,
                      !.state_.kettle_setpoint_f = status.setpoint,
                      !.state_.heating = (status.stage # 0),
                      !.state_.status_received = TRUE,
                      !.last_status_seq_ = k.last_rx_seq_,
                      !.state_.on_base = status.on_base,
                      !.state_.remaining_hold_time_seconds = status.remaining_hold_time,
                      !.state_.my_temp_f =
                         IF ~k.pending_my_temp_ THEN status.my_temp ELSE @,
                      !.state_.hold_time_seconds =
                         IF ~k.pending_hold_time_ THEN status.configured_hold_time ELSE @,
                      !.state_.baby_formula_enabled =
                         IF ~k.pending_baby_formula_ THEN status.baby_formula_enabled ELSE @])

\* The loop body of process_frame_buffer that ends the wait on any acknowledgement
dispatch_frame_any_seq(k, frame) ==
  LET k1 == [k EXCEPT !.last_rx_seq_ = frame.seq,
                      !.frames = Append(@, [frame_type |-> frame.frame_type, seq |-> frame.seq,
                                            payload |-> SubSeq(frame.payload, 1, frame.payload_len)])]
      is_ack == frame.frame_type = ACK_HEADER_TYPE
      ack_status == IF frame.payload_len > 4 THEN PayloadAt(frame, 4) ELSE 0
      k2 == IF is_ack /\ k1.waiting_for_ack_complete_
            THEN [k1 EXCEPT !.waiting_for_ack_complete_ = FALSE,
                            !.last_ack_error_code_ = ack_status]
            ELSE k1
      k3 == IF is_ack /\ k2.pending_baby_formula_ /\ PayloadAt(frame, 1) = CMD_SET_BABY_FORMULA
            THEN [k2 EXCEPT !.pending_baby_formula_ = FALSE] ELSE k2
      k4 == IF is_ack /\ k3.pending_hold_time_ /\ PayloadAt(frame, 1) = CMD_SET_HOLD_TIME
            THEN [k3 EXCEPT !.pending_hold_time_ = FALSE] ELSE k3
      k5 == IF is_ack /\ k4.pending_my_temp_ /\ PayloadAt(frame, 1) = CMD_SET_MY_TEMP
            THEN [k4 EXCEPT !.pending_my_temp_ = FALSE] ELSE k4
      k6 == IF frame.frame_type = MESSAGE_HEADER_TYPE /\ PayloadAt(frame, 1) = CMD_CTRL
            THEN CosoriKettleState_parse_compact_status(k5, frame.payload, frame.payload_len) ELSE k5
  IN IF is_ack /\ PayloadAt(frame, 1) = CMD_POLL
     THEN parse_status_ack(k6, frame.payload, frame.payload_len) ELSE k6

\* The body of process_frame_buffer's loop for one valid frame
dispatch_frame(k, frame) ==
  LET k1 == [k EXCEPT !.last_rx_seq_ = frame.seq,
                      !.frames = Append(@, [frame_type |-> frame.frame_type, seq |-> frame.seq,
                                            payload |-> SubSeq(frame.payload, 1, frame.payload_len)])]
      is_ack == frame.frame_type = ACK_HEADER_TYPE
      ack_status == IF frame.payload_len > 4 THEN PayloadAt(frame, 4) ELSE 0
      k2 == IF is_ack /\ k1.waiting_for_ack_complete_ /\ k1.waiting_for_ack_seq_ = frame.seq
            THEN [k1 EXCEPT !.waiting_for_ack_complete_ = FALSE,
                            !.last_ack_error_code_ = ack_status]
            ELSE k1
      k3 == IF is_ack /\ k2.pending_baby_formula_ /\ PayloadAt(frame, 1) = CMD_SET_BABY_FORMULA
            THEN [k2 EXCEPT !.pending_baby_formula_ = FALSE] ELSE k2
      k4 == IF is_ack /\ k3.pending_hold_time_ /\ PayloadAt(frame, 1) = CMD_SET_HOLD_TIME
            THEN [k3 EXCEPT !.pending_hold_time_ = FALSE] ELSE k3
      k5 == IF is_ack /\ k4.pending_my_temp_ /\ PayloadAt(frame, 1) = CMD_SET_MY_TEMP
            THEN [k4 EXCEPT !.pending_my_temp_ = FALSE] ELSE k4
      k6 == IF frame.frame_type = MESSAGE_HEADER_TYPE /\ PayloadAt(frame, 1) = CMD_CTRL
            THEN CosoriKettleState_parse_compact_status(k5, frame.payload, frame.payload_len) ELSE k5
  IN IF is_ack /\ PayloadAt(frame, 1) = CMD_POLL
     THEN parse_status_ack(k6, frame.payload, frame.payload_len) ELSE k6

RECURSIVE process_frame_loop(_)
process_frame_loop(k) ==
  LET r == process_next_frame(k.recv_buffer_, MAX_PAYLOAD_SIZE)
  IN IF ~r.info.valid THEN [k EXCEPT !.recv_buffer_ = r.env]
     ELSE process_frame_loop(dispatch_frame([k EXCEPT !.recv_buffer_ = r.env], r.info))

process_frame_buffer(k) ==
  LET k1 == process_frame_loop(k)
  IN [k1 EXCEPT !.recv_buffer_ = compact(@)]

\* process_rx_data() without the size check that precedes the append
process_rx_data_no_size_check(k, data) ==
  LET a == append(k.recv_buffer_, data)
      k2 == IF ~a.ok THEN [k EXCEPT !.recv_buffer_ = clear(@)]
            ELSE [k EXCEPT !.recv_buffer_ = a.env]
  IN process_frame_buffer(k2)

process_rx_data(k, data) ==
  LET k1 == IF Len(k.recv_buffer_.buf) + Len(data) > MAX_FRAME_BUFFER_SIZE
            THEN [k EXCEPT !.recv_buffer_ = clear(@)] ELSE k
      a == append(k1.recv_buffer_, data)
      k2 == IF ~a.ok THEN [k1 EXCEPT !.recv_buffer_ = clear(@)]
            ELSE [k1 EXCEPT !.recv_buffer_ = a.env]
  IN process_frame_buffer(k2)

(***************************************************************************)
(* Command methods                                                         *)
(***************************************************************************)
set_target_setpoint(k, temp_f) == [k EXCEPT !.state_.target_setpoint_f = ClampTemp(temp_f)]

set_hold_time(k, seconds) ==
  send_set_hold_time([k EXCEPT !.state_.hold_time_seconds = seconds,
                               !.pending_hold_time_ = TRUE], seconds)

set_my_temp(k, temp_f) ==
  send_set_my_temp([k EXCEPT !.state_.my_temp_f = ClampTemp(temp_f),
                             !.pending_my_temp_ = TRUE], ClampTemp(temp_f))

set_baby_formula_enabled(k, enabled) ==
  send_set_baby_formula([k EXCEPT !.state_.baby_formula_enabled = enabled,
                                  !.pending_baby_formula_ = TRUE], enabled)

\* start_heating() whose presets match two degrees to either side
start_heating_wide(k) ==
  LET temp_f == k.state_.target_setpoint_f % U8
      mode0 == IF temp_f = MAX_TEMP_F THEN MODE_BOIL ELSE MODE_HEAT
      v1heat == k.config_.protocol_version = 1 /\ mode0 = MODE_HEAT
      mode == IF ~v1heat THEN mode0
              ELSE IF temp_f < MODE_GREEN_TEA_F + 3 /\ temp_f > MODE_GREEN_TEA_F - 3
              THEN MODE_GREEN_TEA
              ELSE IF temp_f < MODE_OOLONG_F + 3 /\ temp_f > MODE_OOLONG_F - 3
              THEN MODE_OOLONG
              ELSE IF temp_f < MODE_COFFEE_F + 3 /\ temp_f > MODE_COFFEE_F - 3
              THEN MODE_COFFEE
              ELSE MODE_MY_TEMP
  IN [k EXCEPT !.pending_temp_f_ = temp_f,
               !.pending_mode_ = mode,
               !.command_state_ = IF v1heat /\ mode = MODE_MY_TEMP
                                  THEN "HEAT_SET_TEMP" ELSE "HEAT_START",
               !.command_state_time_ = 0]

start_heating(k) ==
  LET temp_f == k.state_.target_setpoint_f % U8
      mode0 == IF temp_f = MAX_TEMP_F THEN MODE_BOIL ELSE MODE_HEAT
      v1heat == k.config_.protocol_version = 1 /\ mode0 = MODE_HEAT
      mode == IF ~v1heat THEN mode0
              ELSE IF temp_f < MODE_GREEN_TEA_F + 2 /\ temp_f > MODE_GREEN_TEA_F - 2
              THEN MODE_GREEN_TEA
              ELSE IF temp_f < MODE_OOLONG_F + 2 /\ temp_f > MODE_OOLONG_F - 2
              THEN MODE_OOLONG
              ELSE IF temp_f < MODE_COFFEE_F + 2 /\ temp_f > MODE_COFFEE_F - 2
              THEN MODE_COFFEE
              ELSE MODE_MY_TEMP
  IN [k EXCEPT !.pending_temp_f_ = temp_f,
               !.pending_mode_ = mode,
               !.command_state_ = IF v1heat /\ mode = MODE_MY_TEMP
                                  THEN "HEAT_SET_TEMP" ELSE "HEAT_START",
               !.command_state_time_ = 0]

stop_heating(k) == [k EXCEPT !.command_state_ = "STOP", !.command_state_time_ = 0]

send_hello(k, use_register_command) ==
  IF ~k.config_.registration_key_set THEN k
  ELSE [k EXCEPT !.use_register_command_ = use_register_command,
                 !.command_state_ = "HANDSHAKE_START",
                 !.command_state_time_ = 0]

(***************************************************************************)
(* The command state machine                                               *)
(***************************************************************************)
transition_state(k, new_state, now_ms) ==
  [k EXCEPT !.command_state_ = new_state, !.command_state_time_ = now_ms]

Idle(k) == [k EXCEPT !.command_state_ = "IDLE"]

\* handle_handshake_start() after its send_command call, r the call's result
handshake_sent(r, now_ms) ==
  IF ~r.ret THEN Idle(r.k)
  ELSE transition_state([r.k EXCEPT !.waiting_for_ack_seq_ = 0,
                                    !.waiting_for_ack_complete_ = TRUE],
                        "HANDSHAKE_WAIT_CHUNKS", now_ms)

handle_handshake_start(k, now_ms) ==
  LET payload == IF k.use_register_command_
                 THEN build_register_payload(k.config_.protocol_version,
                                             k.config_.registration_key)
                 ELSE build_hello_payload(k.config_.protocol_version,
                                          k.config_.registration_key)
  IN IF Len(payload) = 0 THEN Idle(k)
     ELSE handshake_sent(send_command(k, 0, payload, FALSE), now_ms)

handle_handshake_wait_chunks(k, now_ms, elapsed) ==
  IF elapsed >= HANDSHAKE_TIMEOUT_MS THEN Idle(k)
  ELSE IF k.waiting_for_ack_complete_ \/ k.waiting_for_write_ack_
          \/ k.send_chunk_index_ < k.send_total_chunks_
  THEN k
  ELSE transition_state(k, "HANDSHAKE_POLL", now_ms)

\* handle_handshake_poll() that does not look at the error code
handle_handshake_poll_any_code(k, now_ms, elapsed) ==
  IF elapsed >= HANDSHAKE_TIMEOUT_MS THEN Idle(k)
  ELSE IF k.waiting_for_ack_complete_ THEN k
  ELSE Idle(send_status_request(k))

\* handle_handshake_poll() that goes back to waiting for the chunks
handle_handshake_poll_wait_again(k, now_ms, elapsed) ==
  IF elapsed >= HANDSHAKE_TIMEOUT_MS THEN Idle(k)
  ELSE IF k.waiting_for_ack_complete_ THEN k
  ELSE IF k.last_ack_error_code_ # 0 THEN Idle(k)
  ELSE [send_status_request(k) EXCEPT !.command_state_ = "HANDSHAKE_WAIT_CHUNKS"]

handle_handshake_poll(k, now_ms, elapsed) ==
  IF elapsed >= HANDSHAKE_TIMEOUT_MS THEN Idle(k)
  ELSE IF k.waiting_for_ack_complete_ THEN k
  ELSE IF k.last_ack_error_code_ # 0 THEN Idle(k)
  ELSE Idle(send_status_request(k))

handle_heat_set_temp(k, now_ms, elapsed) ==
  IF elapsed < PRE_SETPOINT_DELAY_MS THEN k
  ELSE IF k.config_.protocol_version # 1 \/ k.pending_mode_ # MODE_MY_TEMP
  THEN [k EXCEPT !.command_state_ = "HEAT_START"]
  ELSE transition_state(send_set_my_temp(k, k.pending_temp_f_), "HEAT_START", now_ms)

handle_heat_start(k, now_ms, elapsed) ==
  IF elapsed < PRE_SETPOINT_DELAY_MS \/ k.pending_my_temp_ THEN k
  ELSE transition_state(send_set_mode(k, k.pending_mode_, k.pending_temp_f_),
                        IF k.config_.protocol_version = 1 THEN "HEAT_COMPLETE" ELSE "HEAT_POLL",
                        now_ms)

\* handle_heat_poll() that does not wait for the post-setpoint delay
handle_heat_poll_no_delay(k, now_ms, elapsed) ==
  transition_state(
    send_request_compact_status(
      k, IF k.last_status_seq_ # 0 THEN k.last_status_seq_ ELSE k.last_rx_seq_),
    "HEAT_POLL_REPEAT", now_ms)

handle_heat_poll(k, now_ms, elapsed) ==
  IF elapsed < POST_SETPOINT_DELAY_MS THEN k
  ELSE transition_state(
         send_request_compact_status(
           k, IF k.last_status_seq_ # 0 THEN k.last_status_seq_ ELSE k.last_rx_seq_),
         "HEAT_POLL_REPEAT", now_ms)

handle_heat_poll_repeat(k, now_ms, elapsed) ==
  IF elapsed < CONTROL_DELAY_MS THEN k
  ELSE LET k1 == next_tx_seq(k)
       IN transition_state(send_request_compact_status(k1, k1.tx_seq_), "HEAT_COMPLETE", now_ms)

handle_heat_complete(k, now_ms, elapsed) ==
  IF elapsed < CONTROL_DELAY_MS THEN k ELSE Idle(k)

handle_stop(k, now_ms) == transition_state(send_stop(k), "STOP_POLL", now_ms)

handle_stop_poll(k, now_ms, elapsed) ==
  IF elapsed < CONTROL_DELAY_MS THEN k
  ELSE transition_state(
         send_request_compact_status(
           k, IF k.last_status_seq_ # 0 THEN k.last_status_seq_ ELSE k.last_rx_seq_),
         "STOP_REPEAT", now_ms)

handle_stop_repeat(k, now_ms, elapsed) ==
  IF elapsed < CONTROL_DELAY_MS THEN k ELSE Idle(send_stop(k))

\* The switch of process_command_state_machine(): the handler of the state at entry
dispatch_state(k, initial_state, now_ms, elapsed) ==
  CASE initial_state = "IDLE" -> k
    [] initial_state = "HANDSHAKE_START" -> handle_handshake_start(k, now_ms)
    [] initial_state = "HANDSHAKE_WAIT_CHUNKS" -> handle_handshake_wait_chunks(k, now_ms, elapsed)
    [] initial_state = "HANDSHAKE_POLL" -> handle_handshake_poll(k, now_ms, elapsed)
    [] initial_state = "HEAT_SET_TEMP" -> handle_heat_set_temp(k, now_ms, elapsed)
    [] initial_state = "HEAT_START" -> handle_heat_start(k, now_ms, elapsed)
    [] initial_state = "HEAT_POLL" -> handle_heat_poll(k, now_ms, elapsed)
    [] initial_state = "HEAT_POLL_REPEAT" -> handle_heat_poll_repeat(k, now_ms, elapsed)
    [] initial_state = "HEAT_COMPLETE" -> handle_heat_complete(k, now_ms, elapsed)
    [] initial_state = "STOP" -> handle_stop(k, now_ms)
    [] initial_state = "STOP_POLL" -> handle_stop_poll(k, now_ms, elapsed)
    [] initial_state = "STOP_REPEAT" -> handle_stop_repeat(k, now_ms, elapsed)

\* A timeout protection that never forces the machine to Idle
timeout_protection_never(k, initial_state, elapsed) == k

\* The timeout protection that ends process_command_state_machine()
timeout_protection(k, initial_state, elapsed) ==
  IF k.command_state_ # "IDLE" /\ k.command_state_ = initial_state
     /\ elapsed >= IDLE_TIMEOUT_MS
  THEN Idle(k) ELSE k

RECURSIVE process_command_state_machine(_, _)
\* process_command_state_machine() after its switch: the machine runs again when the
\* handler changed the state, then the timeout protection is applied
state_transitions(k, initial_state, now_ms, elapsed) ==
  timeout_protection(IF k.command_state_ # initial_state
                     THEN process_command_state_machine(k, now_ms) ELSE k,
                     initial_state, elapsed)

\* process_command_state_machine() once command_state_time_ is initialised:
\* elapsed = now_ms - command_state_time_, initial_state = command_state_
run_state_machine(k, now_ms) ==
  state_transitions(
    dispatch_state(k, k.command_state_, now_ms, now_ms - k.command_state_time_),
    k.command_state_, now_ms, now_ms - k.command_state_time_)

process_command_state_machine(k, now_ms) ==
  run_state_machine(IF k.command_state_time_ = 0
                    THEN [k EXCEPT !.command_state_time_ = now_ms] ELSE k,
                    now_ms)

\* update() after process_command_state_machine(): the periodic status request
poll_when_idle(k) ==
  IF k.command_state_ # "IDLE" THEN k
  ELSE IF k.waiting_for_write_ack_ THEN k
  ELSE IF k.send_chunk_index_ < k.send_total_chunks_ THEN k
  ELSE send_status_request(k)

\* update() that does not look at registration_sent
update_unregistered(k, now_ms, connected, registration_sent) ==
  IF ~connected THEN track_online_status(k)
  ELSE poll_when_idle(process_command_state_machine(track_online_status(k), now_ms))

update(k, now_ms, connected, registration_sent) ==
  IF ~connected THEN track_online_status(k)
  ELSE IF ~registration_sent THEN track_online_status(k)
  ELSE poll_when_idle(process_command_state_machine(track_online_status(k), now_ms))

can_send_command(k) ==
  k.command_state_ = "IDLE" /\ ~k.waiting_for_write_ack_
  /\ k.send_chunk_index_ >= k.send_total_chunks_

(***************************************************************************)
(* The engine in its environment: the operations the transport, the clock  *)
(* and the user drive.                                                     *)
(***************************************************************************)
\* Bounds of the exploration
MaxNow == 350
MaxNowHandshake == 100
MaxNowStop == 200
MaxTxSeq == 3

\* Clock advance between two update() calls, in ms
TickSteps == {50}

SetpointInputs == {150}
MyTempInputs == {150}
HoldTimeInputs == {300}

\* Frames the device sends, built as the device builds them (version byte 1)
RxFrame(frame_type, seq, payload) == build(EmptyEnvelope, frame_type, seq, payload).env.buf

AckPayload(cmd, type_byte, error_code) == <<1, cmd, type_byte, 0, error_code>>

CompactStatusPayload == <<1, CMD_CTRL, CMD_TYPE_40, 0, 1, 1, 180, 111, 0, 0, 0, 0>>

ExtendedStatusPayload ==
  <<1, CMD_POLL, CMD_TYPE_40, 0, 3, 1, 180, 181, 175, 1, 44, 1, 159, 0, 0, 0, 0, 88, 2, 0,
    0, 0, 0, 0, 44, 1, 0, 0, 1>>

HelloAckFrame == RxFrame(ACK_HEADER_TYPE, 0, AckPayload(CMD_HELLO, CMD_TYPE_D1, 0))

HelloErrorFrame == RxFrame(ACK_HEADER_TYPE, 0, AckPayload(CMD_HELLO, CMD_TYPE_D1, 1))

MyTempAckFrame == RxFrame(ACK_HEADER_TYPE, 1, AckPayload(CMD_SET_MY_TEMP, CMD_TYPE_A3, 0))

CompactStatusFrame == RxFrame(MESSAGE_HEADER_TYPE, 2, CompactStatusPayload)

RxInputs == {HelloAckFrame, HelloErrorFrame, MyTempAckFrame, CompactStatusFrame}

HandshakeRxInputs == {HelloAckFrame, HelloErrorFrame, CompactStatusFrame}

HeatRxInputs == {MyTempAckFrame}

StopRxInputs == {CompactStatusFrame}

\* The send_command calls a tick's state-machine handlers made, stamped with the tick's time
RECURSIVE HandlerSends(_, _)
HandlerSends(sends, at) ==
  IF sends = <<>> THEN <<>>
  ELSE (IF Head(sends).state # "IDLE"
        THEN <<[cmd |-> Head(sends).cmd, seq |-> Head(sends).seq, ok |-> Head(sends).ok,
                state |-> Head(sends).state, at |-> at]>>
        ELSE <<>>)
       \o HandlerSends(Tail(sends), at)

Apply(k) ==
  /\ config_' = k.config_
  /\ state_' = k.state_
  /\ send_data_callback_' = k.send_data_callback_
  /\ last_rx_seq_' = k.last_rx_seq_
  /\ tx_seq_' = k.tx_seq_
  /\ last_ack_error_code_' = k.last_ack_error_code_
  /\ waiting_for_ack_complete_' = k.waiting_for_ack_complete_
  /\ waiting_for_ack_seq_' = k.waiting_for_ack_seq_
  /\ last_status_seq_' = k.last_status_seq_
  /\ send_buffer_' = k.send_buffer_
  /\ recv_buffer_' = k.recv_buffer_
  /\ send_chunk_index_' = k.send_chunk_index_
  /\ send_total_chunks_' = k.send_total_chunks_
  /\ waiting_for_write_ack_' = k.waiting_for_write_ack_
  /\ pending_hold_time_' = k.pending_hold_time_
  /\ pending_my_temp_' = k.pending_my_temp_
  /\ pending_baby_formula_' = k.pending_baby_formula_
  /\ command_state_' = k.command_state_
  /\ command_state_time_' = k.command_state_time_
  /\ pending_mode_' = k.pending_mode_
  /\ pending_temp_f_' = k.pending_temp_f_
  /\ use_register_command_' = k.use_register_command_
  /\ inflight' = k.inflight
  /\ frame_handed' = k.frame_handed
  /\ acked' = k.acked

\* The engine state after an update() call, and its send_command calls appended to the
\* log of the command sequence in progress
ApplyLogged(k) ==
  /\ Apply(k)
  /\ cmd_log' = (IF command_state_ = "IDLE" THEN <<>> ELSE cmd_log)
                \o HandlerSends(k.sends, now)

CodecVars == <<build_in, stream, fed, env, dispatched>>

EngineVars ==
  <<config_, state_, send_data_callback_, last_rx_seq_, tx_seq_, last_ack_error_code_,
    waiting_for_ack_complete_, waiting_for_ack_seq_, last_status_seq_, send_buffer_,
    send_chunk_index_, send_total_chunks_, waiting_for_write_ack_, pending_hold_time_,
    pending_my_temp_, pending_baby_formula_, command_state_, command_state_time_,
    pending_mode_, pending_temp_f_, use_register_command_, now, inflight, frame_handed,
    acked, cmd_log>>

\* The state after construction and wiring: configuration set, send callback installed
InitEngine ==
  /\ config_ \in {[protocol_version |-> v, registration_key |-> RegistrationKey,
                   registration_key_set |-> TRUE] : v \in {0, 1}}
  /\ state_ = KettleState0
  /\ send_data_callback_ = TRUE
  /\ last_rx_seq_ = 0
  /\ tx_seq_ = 0
  /\ last_ack_error_code_ = 0
  /\ waiting_for_ack_complete_ = FALSE
  /\ waiting_for_ack_seq_ = 0
  /\ last_status_seq_ = 0
  /\ send_buffer_ = EmptyEnvelope
  /\ recv_buffer_ = EmptyEnvelope
  /\ send_chunk_index_ = 0
  /\ send_total_chunks_ = 0
  /\ waiting_for_write_ack_ = FALSE
  /\ pending_hold_time_ = FALSE
  /\ pending_my_temp_ = FALSE
  /\ pending_baby_formula_ = FALSE
  /\ command_state_ = "IDLE"
  /\ command_state_time_ = 0
  /\ pending_mode_ = 0
  /\ pending_temp_f_ = 0
  /\ use_register_command_ = FALSE
  /\ now = 0
  /\ inflight = 0
  /\ frame_handed = <<>>
  /\ acked = 0
  /\ cmd_log = <<>>

Init ==
  /\ InitEngine
  /\ build_in = <<>>
  /\ stream = <<>>
  /\ fed = 0
  /\ env = EmptyEnvelope
  /\ dispatched = <<>>

\* update(now_ms, connected, registration_sent) at clock reading now; the clock then
\* advances by dt before the next call
Update(dt, connected, registration_sent) ==
  /\ now <= MaxNow
  /\ tx_seq_ < MaxTxSeq
  /\ ApplyLogged(update(K, now, connected, registration_sent))
  /\ now' = now + dt
  /\ UNCHANGED CodecVars

\* The transport completes the outstanding chunk write
OnWriteAck(success) ==
  /\ inflight > 0
  /\ Apply(on_write_ack([K EXCEPT !.inflight = @ - 1], success))
  /\ UNCHANGED <<now, cmd_log, CodecVars>>

\* The transport delivers a notification
ProcessRxData(data) ==
  /\ Apply(process_rx_data(K, data))
  /\ UNCHANGED <<now, cmd_log, CodecVars>>

\* Disconnect: the engine is reset and the transport drops its outstanding writes
Reset ==
  /\ Apply(reset([K EXCEPT !.inflight = 0]))
  /\ UNCHANGED <<now, cmd_log, CodecVars>>

SetTargetSetpoint(temp_f) ==
  /\ Apply(set_target_setpoint(K, temp_f))
  /\ UNCHANGED <<now, cmd_log, CodecVars>>

SetHoldTime(seconds) ==
  /\ tx_seq_ < MaxTxSeq
  /\ Apply(set_hold_time(K, seconds))
  /\ UNCHANGED <<now, cmd_log, CodecVars>>

SetMyTemp(temp_f) ==
  /\ tx_seq_ < MaxTxSeq
  /\ Apply(set_my_temp(K, temp_f))
  /\ UNCHANGED <<now, cmd_log, CodecVars>>

SetBabyFormulaEnabled(enabled) ==
  /\ tx_seq_ < MaxTxSeq
  /\ Apply(set_baby_formula_enabled(K, enabled))
  /\ UNCHANGED <<now, cmd_log, CodecVars>>

StartHeating ==
  /\ Apply(start_heating(K))
  /\ cmd_log' = <<>>
  /\ UNCHANGED <<now, CodecVars>>

StopHeating ==
  /\ Apply(stop_heating(K))
  /\ cmd_log' = <<>>
  /\ UNCHANGED <<now, CodecVars>>

SendHello(use_register_command) ==
  /\ Apply(send_hello(K, use_register_command))
  /\ cmd_log' = <<>>
  /\ UNCHANGED <<now, CodecVars>>

Next ==
  \/ \E dt \in TickSteps, connected \in BOOLEAN, registration_sent \in BOOLEAN :
       Update(dt, connected, registration_sent)
  \/ \E success \in BOOLEAN : OnWriteAck(success)
  \/ \E data \in RxInputs : ProcessRxData(data)
  \/ Reset
  \/ \E temp_f \in SetpointInputs : SetTargetSetpoint(temp_f)
  \/ \E seconds \in HoldTimeInputs : SetHoldTime(seconds)
  \/ \E temp_f \in MyTempInputs : SetMyTemp(temp_f)
  \/ \E enabled \in BOOLEAN : SetBabyFormulaEnabled(enabled)
  \/ StartHeating
  \/ StopHeating
  \/ \E use_register_command \in BOOLEAN : SendHello(use_register_command)

Spec == Init /\ [][Next]_vars

\* The handshake in its environment
NextHandshake ==
  \/ /\ now <= MaxNowHandshake
     /\ \E dt \in TickSteps, connected \in BOOLEAN, registration_sent \in BOOLEAN :
          Update(dt, connected, registration_sent)
  \/ \E success \in BOOLEAN : OnWriteAck(success)
  \/ \E data \in HandshakeRxInputs : ProcessRxData(data)
  \/ Reset
  \/ \E use_register_command \in BOOLEAN : SendHello(use_register_command)

SpecHandshake == Init /\ [][NextHandshake]_vars

\* The start-heating sequence in its environment
NextHeat ==
  \/ \E dt \in TickSteps, connected \in BOOLEAN, registration_sent \in BOOLEAN :
       Update(dt, connected, registration_sent)
  \/ \E success \in BOOLEAN : OnWriteAck(success)
  \/ \E data \in HeatRxInputs : ProcessRxData(data)
  \/ \E temp_f \in SetpointInputs : SetTargetSetpoint(temp_f)
  \/ \E temp_f \in MyTempInputs : SetMyTemp(temp_f)
  \/ StartHeating

SpecHeat == Init /\ [][NextHeat]_vars

\* The stop sequence in its environment
NextStop ==
  \/ /\ now <= MaxNowStop
     /\ \E dt \in TickSteps, connected \in BOOLEAN, registration_sent \in BOOLEAN :
          Update(dt, connected, registration_sent)
  \/ \E success \in BOOLEAN : OnWriteAck(success)
  \/ \E data \in StopRxInputs : ProcessRxData(data)
  \/ \E seconds \in HoldTimeInputs : SetHoldTime(seconds)
  \/ StopHeating

SpecStop == Init /\ [][NextStop]_vars

(***************************************************************************)
(* Properties of the send session                                          *)
(***************************************************************************)
SessionActive == waiting_for_write_ack_ \/ send_chunk_index_ < send_total_chunks_

Session == <<send_buffer_, send_chunk_index_, send_total_chunks_, waiting_for_write_ack_>>

SessionOf(k) ==
  <<k.send_buffer_, k.send_chunk_index_, k.send_total_chunks_, k.waiting_for_write_ack_>>

\* Arguments of send_command tried in every state: one-chunk and multi-chunk payloads
SendCommandInputs ==
  {<<seq, payload, is_ack>> :
     seq \in {0, 1, U8 - 1},
     payload \in {build_stop_payload(1), build_status_request_payload(0),
                  build_hello_payload(1, RegistrationKey)},
     is_ack \in BOOLEAN}

\* C1: while a send session is active (a write acknowledgement is awaited or chunks
\* remain), every send_command call returns failure, hands nothing to the transport
\* and leaves the send buffer, the chunk index, the chunk total and the ack-wait flag
\* as they were; the rejected command is not queued: no step other than a write
\* acknowledgement or a reset changes the session or hands over a chunk.
C1_BusyRejection ==
  /\ [](SessionActive =>
          \A in \in SendCommandInputs :
            LET r == send_command(K, in[1], in[2], in[3])
            IN /\ r.ret = FALSE
               /\ SessionOf(r.k) = Session
               /\ r.k.frame_handed = frame_handed
               /\ r.k.inflight = inflight)
  /\ [][SessionActive /\ ~((\E success \in BOOLEAN : OnWriteAck(success)) \/ Reset)
          => Session' = Session /\ frame_handed' = frame_handed /\ inflight' = inflight]_vars

\* A handler's send_command call was rejected while a session was in progress
C1_Witness ==
  /\ SessionActive
  /\ \E i \in 1..Len(cmd_log) : ~cmd_log[i].ok

\* C2: the chunks of a frame are handed to the transport in index order, each at most
\* once; chunk i+1 is handed only after the write of chunk i was acknowledged as
\* successful; at most one write is outstanding; a chunk of a later frame is handed
\* only when no session is active.
C2_ChunkOrder ==
  /\ [](/\ inflight <= 1
        /\ Len(frame_handed) <= get_chunk_count(send_buffer_)
        /\ \A i \in 1..Len(frame_handed) :
             frame_handed[i] = get_chunk_data(send_buffer_, i - 1)
        /\ Len(frame_handed) <= acked + 1
        /\ SessionActive => inflight = 1 /\ Len(frame_handed) = send_chunk_index_ + 1)
  /\ [][frame_handed' # frame_handed \/ inflight' > inflight
          => \/ /\ SessionActive
                /\ OnWriteAck(TRUE)
                /\ send_buffer_' = send_buffer_
                /\ frame_handed' = Append(frame_handed,
                                          get_chunk_data(send_buffer_, Len(frame_handed)))
             \/ /\ ~SessionActive
                /\ Len(frame_handed') = 1]_vars

\* The last chunk of a three-chunk frame is outstanding after two acknowledged writes
C2_Witness ==
  /\ Len(frame_handed) = 3
  /\ acked = 2
  /\ inflight = 1
  /\ waiting_for_write_ack_

\* C6: a send session comes into being only when send_command accepts a frame (never by
\* a write acknowledgement, a notification or a reset), and then starts at chunk 0 of
\* the frame in the send buffer; it ends only with the successful acknowledgement of
\* its last chunk, with a failed acknowledgement, or with reset(); a failed
\* acknowledgement ends it at once and hands no remaining chunk to the transport.
C6_SessionLifecycle ==
  [][/\ (~SessionActive /\ SessionActive')
          => /\ ~(\/ \E success \in BOOLEAN : OnWriteAck(success)
                  \/ \E data \in RxInputs : ProcessRxData(data)
                  \/ Reset)
             /\ send_chunk_index_' = 0
             /\ send_total_chunks_' = get_chunk_count(send_buffer_')
             /\ frame_handed' = <<get_chunk_data(send_buffer_', 0)>>
             /\ acked' = 0
     /\ (SessionActive /\ ~SessionActive')
          => \/ OnWriteAck(FALSE)
             \/ OnWriteAck(TRUE) /\ send_chunk_index_ + 1 = send_total_chunks_
             \/ Reset
     /\ (SessionActive /\ OnWriteAck(TRUE) /\ send_chunk_index_ + 1 < send_total_chunks_)
          => SessionActive'
     /\ (SessionActive /\ (OnWriteAck(FALSE) \/ Reset))
          => /\ ~SessionActive'
             /\ frame_handed' = frame_handed
             /\ inflight' = 0]_vars

\* A failed write acknowledgement or a reset has ended the session of a three-chunk frame
\* after its first chunk: the session fields are cleared, the other chunks never handed
C6_Witness ==
  /\ ~SessionActive
  /\ send_total_chunks_ = 0
  /\ get_chunk_count(send_buffer_) = 3
  /\ Len(frame_handed) = 1
  /\ acked = 0
  /\ inflight = 0
  /\ state_.no_response_count > 0

(***************************************************************************)
(* Properties of the command sequences                                     *)
(***************************************************************************)
\* The send_command calls the state-machine handlers made in this step
NewSends == IF cmd_log' = cmd_log THEN <<>>
            ELSE IF command_state_ = "IDLE" THEN cmd_log'
            ELSE SubSeq(cmd_log', Len(cmd_log) + 1, Len(cmd_log'))

SendsFrom(log, state) == SelectSeq(log, LAMBDA e : e.state = state)

\* C7: the handshake frame (hello 0x81, or register 0x80 with the flag) is sent with
\* sequence number 0; the handshake's status poll is issued only after every chunk of
\* the handshake frame was write-acknowledged and an ACK with sequence number 0 was
\* received; with error code 0 one status poll is issued and the state returns to Idle.
C7_HandshakeGate ==
  [][/\ \A i \in 1..Len(NewSends) :
          NewSends[i].state = "HANDSHAKE_START"
            => /\ NewSends[i].seq = 0
               /\ NewSends[i].cmd = (IF use_register_command_ THEN CMD_REGISTER ELSE CMD_HELLO)
     /\ SendsFrom(NewSends, "HANDSHAKE_POLL") # <<>>
          => /\ At(send_buffer_.buf, 7) \in {CMD_HELLO, CMD_REGISTER}
             /\ At(send_buffer_.buf, 2) = 0
             /\ acked = get_chunk_count(send_buffer_)
             /\ ~waiting_for_ack_complete_
             /\ last_ack_error_code_ = 0
             /\ Len(SendsFrom(NewSends, "HANDSHAKE_POLL")) = 1
             /\ SendsFrom(NewSends, "HANDSHAKE_POLL")[1].cmd = CMD_POLL
             /\ command_state_' = "IDLE"]_vars

StopStates == {"STOP", "STOP_POLL", "STOP_REPEAT"}

\* The tick that ends a stop sequence
StopCompletes == command_state_ \in StopStates /\ command_state_' = "IDLE"

\* The handlers' send_command calls of a whole stop sequence: stop, compact-status
\* request, stop, each a control delay after the one before
StopAttempts(log) ==
  /\ Len(log) = 3
  /\ log[1].cmd = CMD_STOP /\ log[1].state = "STOP"
  /\ log[2].cmd = CMD_CTRL /\ log[2].state = "STOP_POLL"
  /\ log[3].cmd = CMD_STOP /\ log[3].state = "STOP_REPEAT"
  /\ log[2].at - log[1].at >= CONTROL_DELAY_MS
  /\ log[3].at - log[2].at >= CONTROL_DELAY_MS

\* C8: every stop_heating() request, once ticks run, hands to the transport a stop
\* command (0xF4), at least a control delay (50 ms) later one compact-status request
\* (0x41), and a further control delay later a second stop command, before the command
\* state returns to Idle.
C8_StopSequence ==
  [][StopCompletes
       => /\ StopAttempts(cmd_log')
          /\ \A i \in 1..Len(cmd_log') : cmd_log'[i].ok]_vars

NeedsPreamble == config_.protocol_version = 1 /\ pending_mode_ = MODE_MY_TEMP

\* C9: when start_heating needs the custom-temperature preamble, the set-custom-temp
\* command (0xF3) is sent first and raises its pending flag, and the set-mode command
\* (0xF0) is not sent until that flag has cleared.
C9_PreambleGate ==
  [][\A i \in 1..Len(NewSends) :
       /\ (NewSends[i].state = "HEAT_SET_TEMP" /\ NewSends[i].cmd = CMD_SET_MY_TEMP)
            => pending_my_temp_'
       /\ (NewSends[i].state = "HEAT_START" /\ NewSends[i].cmd = CMD_SET_MODE /\ NeedsPreamble)
            => /\ SendsFrom(cmd_log, "HEAT_SET_TEMP") # <<>>
               /\ ~pending_my_temp_]_vars

HeatStates == {"HEAT_SET_TEMP", "HEAT_START", "HEAT_POLL", "HEAT_POLL_REPEAT", "HEAT_COMPLETE"}

\* The tick that ends a heat-start sequence
HeatCompletes == command_state_ \in HeatStates /\ command_state_' = "IDLE"

\* The log ends with set-mode and two compact-status requests, the first at least the
\* post-setpoint delay after set-mode, the second a control delay after the first
TwoFollowUps(log) ==
  /\ Len(log) >= 3
  /\ LET n == Len(log)
     IN /\ log[n - 2].cmd = CMD_SET_MODE /\ log[n - 2].state = "HEAT_START"
        /\ log[n - 1].cmd = CMD_CTRL /\ log[n - 1].state = "HEAT_POLL"
        /\ log[n].cmd = CMD_CTRL /\ log[n].state = "HEAT_POLL_REPEAT"
        /\ log[n - 1].at - log[n - 2].at >= POST_SETPOINT_DELAY_MS
        /\ log[n].at - log[n - 1].at >= CONTROL_DELAY_MS

\* The log ends with set-mode and holds no compact-status request
NoFollowUps(log) ==
  /\ Len(log) >= 1
  /\ log[Len(log)].cmd = CMD_SET_MODE /\ log[Len(log)].state = "HEAT_START"
  /\ \A i \in 1..Len(log) : log[i].cmd # CMD_CTRL

PayloadOf(version, len) == [i \in 1..len |-> IF i = 1 THEN version ELSE (i * 7) % U8]

\* Payload lengths tried, up to the maximum payload size and one beyond it
MaxPayloadLen == 257

PayloadLens == {0, 1, 2, 20, 255, 256, MaxPayloadLen}

RoundTripInputs ==
  {[frame_type |-> t, seq |-> s, payload |-> PayloadOf(v, n)] :
     t \in {MESSAGE_HEADER_TYPE, ACK_HEADER_TYPE}, s \in 0..(U8 - 1),
     v \in {0, 1}, n \in PayloadLens}

InitRoundTrip ==
  /\ InitEngine
  /\ config_.protocol_version = 1
  /\ build_in \in RoundTripInputs
  /\ stream = <<>>
  /\ fed = 0
  /\ env = EmptyEnvelope
  /\ dispatched = <<>>

\* Envelope::build of the input frame
Build ==
  /\ env = EmptyEnvelope
  /\ env' = build(env, build_in.frame_type, build_in.seq, build_in.payload).env
  /\ UNCHANGED <<EngineVars, recv_buffer_, build_in, stream, fed, dispatched>>

\* process_next_frame on the built envelope
Extract ==
  /\ env # EmptyEnvelope
  /\ dispatched = <<>>
  /\ LET r == process_next_frame(env, MAX_PAYLOAD_SIZE)
     IN /\ env' = r.env
        /\ dispatched' = <<r.info>>
  /\ UNCHANGED <<EngineVars, recv_buffer_, build_in, stream, fed>>

NextRoundTrip == Build \/ Extract

SpecRoundTrip == InitRoundTrip /\ [][NextRoundTrip]_vars

\* C4: for frame type 0x22 or 0x12, every seq in 0..255 and every payload no longer than
\* the maximum payload size, with first byte 0 or 1, Envelope::build followed by
\* process_next_frame returns one valid frame with the same frame type, seq, payload
\* length and payload bytes, and leaves the cursor just past the whole frame.
C4_RoundTrip ==
  (dispatched # <<>> /\ Len(build_in.payload) <= MAX_PAYLOAD_SIZE)
    => LET f == dispatched[1]
       IN /\ f.valid
          /\ f.frame_type = build_in.frame_type
          /\ f.seq = build_in.seq
          /\ f.payload_len = Len(build_in.payload)
          /\ SubSeq(f.payload, 1, f.payload_len) = build_in.payload
          /\ env.pos = 6 + Len(build_in.payload)
          /\ env.pos = Len(env.buf)

\* An ACK frame with seq 255 and a version-1 payload of the maximum size was extracted
C4_Witness ==
  /\ dispatched # <<>>
  /\ dispatched[1].valid
  /\ dispatched[1].frame_type = ACK_HEADER_TYPE
  /\ dispatched[1].seq = U8 - 1
  /\ dispatched[1].payload_len = MAX_PAYLOAD_SIZE
  /\ dispatched[1].payload[1] = 1

\* Well-formed frames of a buffered stream: version-1 and version-0 payloads, an empty
\* payload, a payload holding the magic byte, a seq equal to the magic byte
StreamFrames ==
  { [frame_type |-> MESSAGE_HEADER_TYPE, seq |-> 2, payload |-> CompactStatusPayload],
    [frame_type |-> ACK_HEADER_TYPE, seq |-> FRAME_MAGIC,
     payload |-> AckPayload(CMD_HELLO, CMD_TYPE_D1, 0)],
    [frame_type |-> MESSAGE_HEADER_TYPE, seq |-> 7, payload |-> <<0, FRAME_MAGIC, CMD_TYPE_40>>],
    [frame_type |-> ACK_HEADER_TYPE, seq |-> 9, payload |-> <<>>] }

\* Runs of garbage bytes, none of them the magic byte
GarbageRuns == {<<>>, <<0>>, <<MESSAGE_HEADER_TYPE, 1, FRAME_MAGIC - 1, U8 - 1>>}

\* Most frames in one stream
MaxFrames == 2

FrameBytes(f) == build(EmptyEnvelope, f.frame_type, f.seq, f.payload).env.buf

\* garbage, frame, garbage, frame, ..., garbage
RECURSIVE StreamOf(_, _)
StreamOf(frames, gaps) ==
  IF frames = <<>> THEN Head(gaps)
  ELSE Head(gaps) \o FrameBytes(Head(frames)) \o StreamOf(Tail(frames), Tail(gaps))

ResyncInputs ==
  UNION {[frames : [1..n -> StreamFrames], gaps : [1..(n + 1) -> GarbageRuns]] : n \in 0..MaxFrames}

InitResync ==
  /\ InitEngine
  /\ config_.protocol_version = 1
  /\ build_in \in ResyncInputs
  /\ stream = StreamOf(build_in.frames, build_in.gaps)
  /\ fed = 0
  /\ env = EmptyEnvelope
  /\ dispatched = <<>>

\* The whole stream is appended to the envelope
Load ==
  /\ stream # <<>>
  /\ env' = append(env, stream).env
  /\ stream' = <<>>
  /\ UNCHANGED <<EngineVars, recv_buffer_, build_in, fed, dispatched>>

\* One more process_next_frame call, until a call returns no frame
ExtractNext ==
  /\ stream = <<>>
  /\ env # EmptyEnvelope
  /\ fed = Len(dispatched)
  /\ LET r == process_next_frame(env, MAX_PAYLOAD_SIZE)
     IN /\ env' = r.env
        /\ dispatched' = IF r.info.valid
                         THEN Append(dispatched,
                                     [frame_type |-> r.info.frame_type, seq |-> r.info.seq,
                                      payload |-> SubSeq(r.info.payload, 1, r.info.payload_len)])
                         ELSE dispatched
  /\ fed' = fed + 1
  /\ UNCHANGED <<EngineVars, recv_buffer_, build_in, stream>>

NextResync == Load \/ ExtractNext

SpecResync == InitResync /\ [][NextResync]_vars

\* C5: a buffered stream of N well-formed frames separated, preceded and followed by runs
\* of garbage bytes none of which is 0xA5 yields, by repeated process_next_frame calls,
\* exactly those N frames in their order and no others.
C5_Resync ==
  /\ Len(dispatched) <= Len(build_in.frames)
  /\ \A i \in 1..Len(dispatched) : dispatched[i] = build_in.frames[i]
  /\ fed > Len(dispatched) => dispatched = build_in.frames

\* Two frames were extracted from a stream with garbage before, between and after them,
\* and the next call found no further frame
C5_Witness ==
  /\ Len(dispatched) = 2
  /\ fed = 3
  /\ \A i \in 1..3 : build_in.gaps[i] # <<>>
  /\ dispatched[1].payload # <<>>
  /\ dispatched[1].payload[1] = 0

\* Streams of one or two well-formed frames as the device sends them
SplitInputs ==
  UNION {[1..n -> {f \in StreamFrames : f.payload # <<>>}] : n \in 1..MaxFrames}

RECURSIVE Concat(_)
Concat(frames) ==
  IF frames = <<>> THEN <<>> ELSE FrameBytes(Head(frames)) \o Concat(Tail(frames))

InitSplit ==
  /\ InitEngine
  /\ build_in \in SplitInputs
  /\ stream = Concat(build_in)
  /\ fed = 0
  /\ env = EmptyEnvelope
  /\ dispatched = <<>>

\* The transport delivers the next len bytes of the stream in one notification
Feed(len) ==
  /\ fed + len <= Len(stream)
  /\ LET k == process_rx_data(K, Slice(stream, fed, len))
     IN /\ Apply(k)
        /\ dispatched' = dispatched \o k.frames
  /\ fed' = fed + len
  /\ UNCHANGED <<now, cmd_log, build_in, stream, env>>

NextSplit == \E len \in 1..Len(stream) : Feed(len)

SpecSplit == InitSplit /\ [][NextSplit]_vars

\* The frames process_rx_data dispatches when the whole stream arrives in a single call
SingleCall == process_rx_data([K EXCEPT !.recv_buffer_ = EmptyEnvelope], stream).frames

\* C3: however a stream of well-formed frames is split into consecutive process_rx_data
\* calls, also inside a frame header or a payload, the frames dispatched (frame type,
\* seq, payload) are those dispatched when the whole stream is delivered in one call.
C3_SplitInvariance == fed = Len(stream) => dispatched = SingleCall

(***************************************************************************)
(* Properties of the top-level commands, the watchdog and the reset        *)
(***************************************************************************)
\* A top-level command request: start_heating(), stop_heating() or send_hello()
TopLevelCommand ==
  \/ StartHeating
  \/ StopHeating
  \/ \E use_register_command \in BOOLEAN : SendHello(use_register_command)

\* C11: a top-level command request (start_heating, stop_heating, send_hello) made
\* while a send session is active is rejected: it begins no command sequence and leaves
\* the command state, and the sequence in progress, as they were.
C11_TopLevelRejected ==
  [][(SessionActive /\ TopLevelCommand)
       => /\ command_state_' = command_state_
          /\ command_state_time_' = command_state_time_
          /\ pending_mode_' = pending_mode_
          /\ pending_temp_f_' = pending_temp_f_
          /\ use_register_command_' = use_register_command_]_vars

\* Clock advance between two update() calls while the watchdog is observed, in ms
WatchdogTickSteps == {10000}

\* Frames numbered before write completions stop arriving
MaxTxSeqWatchdog == 2

\* update(now_ms, true, true) with no bound on the number of ticks.  The code reads the
\* clock only as the difference now_ms - command_state_time_, and not at all while the
\* machine is idle, so while the machine is idle the readings are kept modulo two
\* steps; during a command sequence the clock advances by dt.
Tick(dt) ==
  /\ \E k \in {update(K, now, TRUE, TRUE)} : ApplyLogged(k)
  /\ now' = (IF command_state_' = "IDLE" THEN (now + dt) % (2 * dt) ELSE now + dt)
  /\ UNCHANGED CodecVars

Ticks == \E dt \in WatchdogTickSteps : Tick(dt)

\* Ticks never stop; write completions and device replies may stop arriving at any time
\* (and do once MaxTxSeqWatchdog frames were numbered); a setting or a command sequence is
\* requested only while no sequence is in progress.
NextWatchdog ==
  \/ Ticks
  \/ /\ tx_seq_ < MaxTxSeqWatchdog
     /\ \E success \in BOOLEAN : OnWriteAck(success)
  \/ \E data \in HeatRxInputs : ProcessRxData(data)
  \/ /\ command_state_ = "IDLE"
     /\ tx_seq_ < MaxTxSeqWatchdog
     /\ \/ \E temp_f \in MyTempInputs : SetMyTemp(temp_f)
        \/ StartHeating
        \/ StopHeating
        \/ \E use_register_command \in BOOLEAN : SendHello(use_register_command)

\* The clock readings a tick can leave behind; no other step changes the clock
ClockAdvances == \E dt \in WatchdogTickSteps : now' \in {now + dt, (now + dt) % (2 * dt)}

\* update() is called from the component's loop for ever: the clock keeps advancing
SpecWatchdog == Init /\ [][NextWatchdog]_vars /\ WF_now(ClockAdvances)

\* C12: the send path is never locked out for good: with ticks continuing, a state in
\* which a new command can be sent (can_send_command() is true) is always reached again,
\* even when a write completion or a device reply never arrives.
C12_NoLockout == []<>can_send_command(K)

\* The handler of the state at entry, as process_command_state_machine() runs it at
\* this clock reading
HandlerResult ==
  dispatch_state(K, command_state_, now, now - command_state_time_)

\* A tick finds a non-Idle state entered 30 s ago or more, and its handler leaves it
WatchdogDue ==
  /\ command_state_ # "IDLE"
  /\ command_state_time_ # 0
  /\ now - command_state_time_ >= IDLE_TIMEOUT_MS
  /\ HandlerResult.command_state_ = command_state_

MaxNowSettings == 50

\* Frames numbered before the settings stop
MaxTxSeqSettings == 2

SettingsHoldTimeInputs == {600}

ExtendedStatusFrame == RxFrame(ACK_HEADER_TYPE, 3, ExtendedStatusPayload)

HoldTimeAckFrame == RxFrame(ACK_HEADER_TYPE, 1, AckPayload(CMD_SET_HOLD_TIME, CMD_TYPE_A3, 0))

BabyFormulaAckFrame ==
  RxFrame(ACK_HEADER_TYPE, 1, AckPayload(CMD_SET_BABY_FORMULA, CMD_TYPE_A3, 0))

\* Notifications of the device: a status, the acknowledgements of the settings, and an
\* acknowledgement and a status in one notification
SettingsRxInputs ==
  {ExtendedStatusFrame, MyTempAckFrame, HoldTimeAckFrame, BabyFormulaAckFrame,
   MyTempAckFrame \o ExtendedStatusFrame}

RxStep == \E data \in SettingsRxInputs : ProcessRxData(data)

\* The settings, the device's statuses and the disconnect in their environment
NextSettings ==
  \/ /\ now <= MaxNowSettings
     /\ \E dt \in TickSteps, connected \in BOOLEAN : Update(dt, connected, TRUE)
  \/ \E success \in BOOLEAN : OnWriteAck(success)
  \/ RxStep
  \/ Reset
  \/ /\ tx_seq_ < MaxTxSeqSettings
     /\ \/ \E seconds \in SettingsHoldTimeInputs : SetHoldTime(seconds)
        \/ \E temp_f \in MyTempInputs : SetMyTemp(temp_f)
        \/ \E enabled \in BOOLEAN : SetBabyFormulaEnabled(enabled)

SpecSettings == Init /\ [][NextSettings]_vars

\* C14: while a pending flag is set, the field it protects holds the value the local
\* setter wrote, and no received notification changes a field whose flag is still set
\* after it (nor sets a flag): a status value is applied to a field only when its flag
\* is clear.
C14_PendingProtects ==
  /\ [](pending_my_temp_ => state_.my_temp_f \in MyTempInputs)
  /\ [](pending_hold_time_ => state_.hold_time_seconds \in SettingsHoldTimeInputs)
  /\ [][((pending_my_temp_' /\ ~pending_my_temp_)
          \/ (pending_my_temp_' /\ state_'.my_temp_f # state_.my_temp_f)
          \/ (pending_hold_time_' /\ ~pending_hold_time_)
          \/ (pending_hold_time_' /\ state_'.hold_time_seconds # state_.hold_time_seconds)
          \/ (pending_baby_formula_' /\ ~pending_baby_formula_)
          \/ (pending_baby_formula_'
              /\ state_'.baby_formula_enabled # state_.baby_formula_enabled))
         => ~RxStep]_vars

\* An extended status (my temp 175, hold time 300 s, baby formula on, on base) was
\* applied while my temp and the baby formula were pending: both kept the setters' values
C14_Witness ==
  /\ pending_my_temp_
  /\ pending_baby_formula_
  /\ ~pending_hold_time_
  /\ state_.status_received
  /\ state_.on_base
  /\ state_.hold_time_seconds = 300
  /\ state_.my_temp_f = 150
  /\ ~state_.baby_formula_enabled

\* C15: after a disconnect (reset()) the three pending flags are false, whatever they
\* were before.
C15_ResetClearsPending ==
  [][Reset => (~pending_hold_time_' /\ ~pending_my_temp_' /\ ~pending_baby_formula_')]_vars

\* C16: after reset(), in any state: no send session is active (chunk index and total
\* chunks are 0 and no write awaits completion), the flag of the awaited acknowledgement
\* is false, the receive buffer is empty, status_received is false and
\* no_response_count is 0.
C16_ResetClearsProtocol ==
  [][Reset => /\ send_chunk_index_' = 0
              /\ send_total_chunks_' = 0
              /\ ~waiting_for_write_ack_'
              /\ ~waiting_for_ack_complete_'
              /\ recv_buffer_' = EmptyEnvelope
              /\ ~state_'.status_received
              /\ state_'.no_response_count = 0]_vars

\* C17: reset() leaves target_setpoint_f, my_temp_f, hold_time_seconds and
\* baby_formula_enabled unchanged, and changes no field of the kettle state other than
\* status_received and no_response_count.
C17_ResetKeepsIntent ==
  [][Reset => state_' = [state_ EXCEPT !.status_received = FALSE,
                                       !.no_response_count = 0]]_vars

\* A reset has cleared status_received after a status was applied (current temperature
\* 181, on base) and two settings were written: the settings are still there
C17_Witness ==
  /\ ~state_.status_received
  /\ state_.no_response_count = 0
  /\ state_.current_temp_f = 181
  /\ state_.on_base
  /\ state_.my_temp_f = 150
  /\ state_.hold_time_seconds = 600
  /\ recv_buffer_ = EmptyEnvelope
  /\ ~waiting_for_write_ack_

(***************************************************************************)
(* Properties of the handshake's error path, the liveness counter and the  *)
(* receive buffer                                                          *)
(***************************************************************************)
\* The acknowledgement the handshake waited for has arrived with an error code
HandshakeRefused ==
  /\ command_state_ \in {"HANDSHAKE_WAIT_CHUNKS", "HANDSHAKE_POLL"}
  /\ ~waiting_for_ack_complete_
  /\ last_ack_error_code_ # 0

\* C18: when the acknowledgement correlated with the handshake carries a nonzero error
\* code, the ticks that follow send nothing from the handshake's handlers (no status
\* poll, no second handshake frame) and the tick that finds the send session finished
\* ends the handshake in Idle. (The periodic status request of update() when idle is not
\* a send of the handshake.)
C18_ErrorAborts ==
  [][(HandshakeRefused /\ \E dt \in TickSteps : Update(dt, TRUE, TRUE))
       => /\ NewSends = <<>>
          /\ Len(SendsFrom(cmd_log', "HANDSHAKE_START")) <= 1
          /\ SendsFrom(cmd_log', "HANDSHAKE_POLL") = <<>>
          /\ command_state_' = (IF SessionActive THEN "HANDSHAKE_WAIT_CHUNKS" ELSE "IDLE")]_vars

\* The handshake has ended in Idle on the error code: its frame was sent once and no
\* status poll of the handshake followed
C18_Witness ==
  /\ command_state_ = "IDLE"
  /\ last_ack_error_code_ = 1
  /\ ~waiting_for_ack_complete_
  /\ Len(cmd_log) = 1
  /\ cmd_log[1].state = "HANDSHAKE_START"
  /\ cmd_log[1].ok
  /\ cmd_log[1].cmd = CMD_HELLO

\* update(now_ms, connected, registration_sent) under a clock that never stops; the
\* engine reads the clock only while a command sequence runs, so while the machine is
\* idle the readings are kept modulo two steps
UpdateCyclic(dt, connected, registration_sent) ==
  /\ \E k \in {update(K, now, connected, registration_sent)} : ApplyLogged(k)
  /\ now' = (IF command_state_' = "IDLE" THEN (now + dt) % (2 * dt) ELSE now + dt)
  /\ UNCHANGED CodecVars

\* Frames numbered before the link stays down
MaxTxSeqOnline == 2

\* A compact status whose temperature reading is out of range: it is not parsed
InvalidStatusFrame ==
  RxFrame(MESSAGE_HEADER_TYPE, 2, <<1, CMD_CTRL, CMD_TYPE_40, 0, 1, 1, 180, 0, 0, 0, 0, 0>>)

ValidStatusFrames == {CompactStatusFrame, ExtendedStatusFrame}

\* The liveness counter in its environment: ticks in every connection state, the
\* device's statuses and the disconnect
NextOnline ==
  \/ \E dt \in TickSteps, connected \in BOOLEAN, registration_sent \in BOOLEAN :
       /\ (connected /\ registration_sent) => tx_seq_ < MaxTxSeqOnline
       /\ UpdateCyclic(dt, connected, registration_sent)
  \/ \E success \in BOOLEAN : OnWriteAck(success)
  \/ \E data \in ValidStatusFrames \cup {InvalidStatusFrame} : ProcessRxData(data)
  \/ Reset

SpecOnline == Init /\ [][NextOnline]_vars

\* C19: every update() tick increments no_response_count unless it is at the cap of 10,
\* and clears status_received when the count is then 10; every parsed status frame,
\* compact or extended, resets the count to 0; so the count never exceeds 10 and
\* status_received is true only while fewer than 10 ticks have passed since the last
\* parsed status frame.
C19_OnlineTracking ==
  /\ [](state_.no_response_count \in 0..NO_RESPONSE_THRESHOLD)
  /\ [](state_.status_received => state_.no_response_count < NO_RESPONSE_THRESHOLD)
  /\ [][now' # now =>
          /\ state_'.no_response_count =
               (IF state_.no_response_count < NO_RESPONSE_THRESHOLD
                THEN state_.no_response_count + 1 ELSE state_.no_response_count)
          /\ state_'.status_received =
               (state_.status_received
                /\ state_'.no_response_count < NO_RESPONSE_THRESHOLD)]_vars
  /\ [][(state_'.no_response_count # 0 \/ ~state_'.status_received)
          => ~\E data \in ValidStatusFrames : ProcessRxData(data)]_vars

\* A compact status was parsed (reading 111) and ten ticks later the count is at its cap
\* and the status no longer fresh
C19_Witness ==
  /\ state_.no_response_count = NO_RESPONSE_THRESHOLD
  /\ ~state_.status_received
  /\ state_.current_temp_f = 111
  /\ last_status_seq_ = 2

\* Filler bytes: n zeros, none of them the frame magic
Zeros(n) == [i \in 1..n |-> 0]

\* Bytes of the payload that arrive with the header of the unfinished frame
PendingPayloadLen == 200

\* Filler bytes that follow the status frame in the long notification
TrailingLen == 300

\* The header of a frame with a payload of MAX_PAYLOAD_SIZE bytes and the first bytes of
\* that payload: the frame stays unparsed until the rest arrives
PendingFrameHead ==
  SubSeq(RxFrame(MESSAGE_HEADER_TYPE, 5, Zeros(MAX_PAYLOAD_SIZE)), 1, 6 + PendingPayloadLen)

\* A compact status (reading 99) followed by filler, in one notification
LongStatusNotification ==
  RxFrame(MESSAGE_HEADER_TYPE, 9, <<1, CMD_CTRL, CMD_TYPE_40, 0, 1, 1, 180, 99, 0, 0, 0, 0>>)
    \o Zeros(TrailingLen)

\* More bytes than the buffer can ever hold
OversizedNotification == Zeros(MAX_FRAME_BUFFER_SIZE + 8)

OverflowRxInputs ==
  {PendingFrameHead, LongStatusNotification, OversizedNotification, CompactStatusFrame}

MaxNowOverflow == 50

\* The receive buffer in its environment
NextOverflow ==
  \/ /\ now <= MaxNowOverflow
     /\ \E dt \in TickSteps, connected \in BOOLEAN : Update(dt, connected, TRUE)
  \/ \E success \in BOOLEAN : OnWriteAck(success)
  \/ \E data \in OverflowRxInputs : ProcessRxData(data)
  \/ Reset

SpecOverflow == Init /\ [][NextOverflow]_vars

\* What a process_rx_data call leaves behind: the buffer, the kettle state and the
\* sequence number of the last frame
RxOutcome(k) == <<k.recv_buffer_, k.state_, k.last_rx_seq_, k.last_status_seq_>>

\* C20: when the buffered bytes plus the new ones would exceed 512, process_rx_data
\* drops everything buffered before it handles the new bytes, so the call ends as it
\* would have on an empty buffer; the receive buffer never holds more than 512 bytes and
\* its cursor never exceeds its size.
C20_OverflowClears ==
  /\ [](Len(recv_buffer_.buf) <= MAX_FRAME_BUFFER_SIZE)
  /\ [](recv_buffer_.pos <= Len(recv_buffer_.buf))
  /\ [][\A data \in OverflowRxInputs :
          (/\ Len(recv_buffer_.buf) + Len(data) > MAX_FRAME_BUFFER_SIZE
           /\ ProcessRxData(data))
          => RxOutcome([recv_buffer_ |-> recv_buffer_', state_ |-> state_',
                        last_rx_seq_ |-> last_rx_seq_',
                        last_status_seq_ |-> last_status_seq_'])
               = RxOutcome(process_rx_data([K EXCEPT !.recv_buffer_ = EmptyEnvelope],
                                           data))]_vars

\* The status of the long notification was parsed and nothing is left in the buffer
C20_Witness ==
  /\ recv_buffer_ = EmptyEnvelope
  /\ state_.status_received
  /\ state_.current_temp_f = 99
  /\ last_rx_seq_ = 9
  /\ last_status_seq_ = 9

(***************************************************************************)
(* Properties of the chunking of a built frame                             *)
(***************************************************************************)
\* Payload lengths whose frames end inside, at the end of and just past a chunk
ChunkPayloadLens == {0, 1, 13, 14, 15, 34, 35, 255, 256}

\* Chunk indexes tried beyond the last chunk
MaxBeyond == 2

ChunkInputs ==
  {[frame_type |-> t, seq |-> s, payload |-> PayloadOf(v, n)] :
     t \in {MESSAGE_HEADER_TYPE, ACK_HEADER_TYPE}, s \in {0, U8 - 1},
     v \in {0, 1}, n \in ChunkPayloadLens}

InitChunks ==
  /\ InitEngine
  /\ config_.protocol_version = 1
  /\ build_in \in ChunkInputs
  /\ stream = <<>>
  /\ fed = 0
  /\ env = EmptyEnvelope
  /\ dispatched = <<>>

\* get_chunk_data(fed), for the chunk indexes in order and a few beyond the last; the
\* bytes returned are collected in dispatched and, joined, in stream
GetChunk ==
  /\ env # EmptyEnvelope
  /\ fed < get_chunk_count(env) + MaxBeyond
  /\ dispatched' = Append(dispatched, get_chunk_data(env, fed))
  /\ stream' = stream \o get_chunk_data(env, fed)
  /\ fed' = fed + 1
  /\ UNCHANGED <<EngineVars, recv_buffer_, build_in, env>>

NextChunks == Build \/ GetChunk

SpecChunks == InitChunks /\ [][NextChunks]_vars

\* The least number of 20-byte chunks that hold len bytes
CeilChunks(len) == CHOOSE c \in 0..len : c * BLE_CHUNK_SIZE >= len /\ (c - 1) * BLE_CHUNK_SIZE < len

\* C21: a built frame of length L has exactly ceil(L/20) chunks; each has at most 20
\* bytes and only the last may be shorter; get_chunk_data beyond the last chunk returns
\* no data; the chunks 0..ceil(L/20)-1 joined in order are exactly the built bytes.
C21_Chunking ==
  env # EmptyEnvelope =>
    /\ get_chunk_count(env) = CeilChunks(Len(env.buf))
    /\ \A i \in 1..Len(dispatched) :
         /\ i < CeilChunks(Len(env.buf)) => Len(dispatched[i]) = BLE_CHUNK_SIZE
         /\ i = CeilChunks(Len(env.buf)) => Len(dispatched[i]) \in 1..BLE_CHUNK_SIZE
         /\ i > CeilChunks(Len(env.buf)) => dispatched[i] = <<>>
    /\ fed >= CeilChunks(Len(env.buf)) => stream = env.buf

\* The 262 bytes of a frame with a payload of the maximum size came out in 14 chunks,
\* the last of 2 bytes, and the two indexes beyond returned nothing
C21_Witness ==
  /\ Len(env.buf) = 6 + MAX_PAYLOAD_SIZE
  /\ fed = 16
  /\ Len(dispatched) = 16
  /\ Len(dispatched[14]) = 2
  /\ dispatched[15] = <<>>
  /\ stream = env.buf

(***************************************************************************)
(* Properties of the frame checksum                                        *)
(***************************************************************************)
\* build_set_my_temp_payload(1, 179) of test_envelope_build
ExamplePayload == <<1, 243, 163, 0, 179>>

ExampleSeq == 28

ExamplePacket == <<165, 34, 28, 5, 0, 205, 1, 243, 163, 0, 179>>

ChecksumPayloadLens == {1, 5, 20, 256}

ChecksumInputs ==
  {[frame_type |-> t, seq |-> s, payload |-> p] :
     t \in {MESSAGE_HEADER_TYPE, ACK_HEADER_TYPE}, s \in {0, ExampleSeq, U8 - 1},
     p \in {PayloadOf(v, n) : v \in {0, 1}, n \in ChecksumPayloadLens} \cup {ExamplePayload}}

\* What is added to header byte 5 of the built frame before it is received
ChecksumDeltas == {0, 1, 128, 255}

InitChecksum ==
  /\ InitEngine
  /\ config_.protocol_version = 1
  /\ build_in \in ChecksumInputs
  /\ stream = <<>>
  /\ fed = 0
  /\ env = EmptyEnvelope
  /\ dispatched = <<>>

\* The built frame arrives as a fully buffered candidate, its byte 5 intact or altered
Arrive(delta) ==
  /\ env # EmptyEnvelope
  /\ stream = <<>>
  /\ stream' = [env.buf EXCEPT ![6] = (@ + delta) % U8]
  /\ UNCHANGED <<EngineVars, recv_buffer_, build_in, fed, env, dispatched>>

\* process_next_frame on the buffered candidate
ExtractArrived ==
  /\ stream # <<>>
  /\ dispatched = <<>>
  /\ dispatched' = <<process_next_frame([buf |-> stream, pos |-> 0], MAX_PAYLOAD_SIZE).info>>
  /\ UNCHANGED <<EngineVars, recv_buffer_, build_in, stream, fed, env>>

NextChecksum == Build \/ (\E delta \in ChecksumDeltas : Arrive(delta)) \/ ExtractArrived

SpecChecksum == InitChecksum /\ [][NextChecksum]_vars

\* The sum of bytes[lo..hi], the checksum position counted as 0x01
RECURSIVE SumCountingOne(_, _, _)
SumCountingOne(bytes, lo, hi) ==
  IF lo > hi THEN 0
  ELSE IF lo = hi THEN (IF lo = 6 THEN 1 ELSE bytes[lo])
  ELSE SumCountingOne(bytes, lo, (lo + hi) \div 2)
         + SumCountingOne(bytes, (lo + hi) \div 2 + 1, hi)

\* The value the specification gives header byte 5 of a frame
ExpectedChecksum(bytes) ==
  IF bytes[7] = 1 THEN (0 - SumCountingOne(bytes, 1, Len(bytes))) % U8
  ELSE (165 + bytes[2] + bytes[3] + bytes[4] + bytes[5]) % U8

\* C22: header byte 5 of a frame built by Envelope::build is, for a payload whose first
\* byte is 1, (0 - the sum of all bytes of the frame with the checksum position counted
\* as 0x01) mod 256, and for a payload whose first byte is 0, (0xA5 + frame_type + seq +
\* len_lo + len_hi) mod 256; process_next_frame accepts a fully buffered candidate only
\* if its byte 5 has this value; the message frame with seq 0x1C and payload
\* 01 F3 A3 00 B3 is A5 22 1C 05 00 CD 01 F3 A3 00 B3.
C22_Checksum ==
  /\ env # EmptyEnvelope => env.buf[6] = ExpectedChecksum(env.buf)
  /\ (dispatched # <<>> /\ dispatched[1].valid) => stream[6] = ExpectedChecksum(stream)
  /\ (env # EmptyEnvelope /\ build_in.frame_type = MESSAGE_HEADER_TYPE
        /\ build_in.seq = ExampleSeq /\ build_in.payload = ExamplePayload)
       => env.buf = ExamplePacket

\* The example packet was built, received intact and accepted
C22_Witness ==
  /\ env # EmptyEnvelope
  /\ env.buf = ExamplePacket
  /\ stream = ExamplePacket
  /\ dispatched # <<>>
  /\ dispatched[1].valid
  /\ dispatched[1].seq = ExampleSeq

\* A version-0 frame received with an altered byte 5 was refused
C22_WitnessRefused ==
  /\ stream # <<>>
  /\ stream[7] = 0
  /\ stream[6] # env.buf[6]
  /\ dispatched # <<>>
  /\ ~dispatched[1].valid

(***************************************************************************)
(* Properties of rejected status frames                                    *)
(***************************************************************************)
\* Temperature readings just outside the accepted range
RejectedTemps == {MIN_VALID_READING_F - 1, MAX_VALID_READING_F + 1}

\* Compact and extended statuses the parsers reject: the temperature byte is out of
\* range, or the payload is shorter than the parser reads
RejectedStatusFrames ==
  {RxFrame(MESSAGE_HEADER_TYPE, 4, <<1, CMD_CTRL, CMD_TYPE_40, 0, 0, 2, 200, t, 0, 0, 0, 0>>) :
     t \in RejectedTemps}
  \cup {RxFrame(ACK_HEADER_TYPE, 5,
                [ExtendedStatusPayload EXCEPT ![5] = 0, ![7] = 200, ![8] = t, ![9] = 150,
                                              ![15] = 1, ![29] = 0]) : t \in RejectedTemps}
  \cup {RxFrame(MESSAGE_HEADER_TYPE, 6, <<1, CMD_CTRL, CMD_TYPE_40, 0, 0, 2, 200, 100>>),
        RxFrame(ACK_HEADER_TYPE, 7, <<1, CMD_POLL, CMD_TYPE_40, 0, 0, 2, 200>>)}

MaxTxSeqRejected == 2

RejectedRx == \E data \in RejectedStatusFrames : ProcessRxData(data)

\* Statuses, accepted and rejected, arriving between ticks
NextRejected ==
  \/ \E dt \in TickSteps, connected \in BOOLEAN :
       /\ connected => tx_seq_ < MaxTxSeqRejected
       /\ UpdateCyclic(dt, connected, TRUE)
  \/ OnWriteAck(TRUE)
  \/ \E data \in ValidStatusFrames : ProcessRxData(data)
  \/ RejectedRx

SpecRejected == Init /\ [][NextRejected]_vars

\* C23: processing a compact or extended status frame that the parser rejects (its
\* temperature byte is outside 40..230 or its payload is too short) leaves every
\* KettleState field unchanged, status_received and no_response_count included.
\* (receiving leaves the clock alone, so steps that move the clock are not receive steps)
C23_RejectedKeepsState == [][(state_' # state_ /\ now' = now) => ~RejectedRx]_vars

\* A rejected extended status was processed while the cached state came from an accepted
\* one and ticks had counted missing responses since
C23_Witness ==
  /\ last_rx_seq_ = 5
  /\ state_.status_received
  /\ state_.current_temp_f = 181
  /\ state_.hold_time_seconds = 300
  /\ state_.no_response_count >= 2

\* The same for a compact status that is too short
C23_WitnessShort ==
  /\ last_rx_seq_ = 6
  /\ state_.status_received
  /\ state_.current_temp_f = 111
  /\ state_.no_response_count >= 1

(***************************************************************************)
(* Properties of the status parsers                                        *)
(***************************************************************************)
\* Status payloads of full length whose temperature byte is each of 0..255
ParseInputs ==
  {[kind |-> "compact", temp |-> t,
    payload |-> [CompactStatusPayload EXCEPT ![8] = t]] : t \in 0..(U8 - 1)}
  \cup {[kind |-> "extended", temp |-> t,
         payload |-> [ExtendedStatusPayload EXCEPT ![8] = t]] : t \in 0..(U8 - 1)}

InitParse ==
  /\ InitEngine
  /\ config_.protocol_version = 1
  /\ build_in \in ParseInputs
  /\ stream = <<>>
  /\ fed = 0
  /\ env = EmptyEnvelope
  /\ dispatched = <<>>

\* parse_compact_status(payload, len) of the input payload
ParseCompact ==
  /\ build_in.kind = "compact"
  /\ dispatched = <<>>
  /\ dispatched' = <<parse_compact_status(build_in.payload, Len(build_in.payload))>>
  /\ UNCHANGED <<EngineVars, recv_buffer_, build_in, stream, fed, env>>

\* parse_extended_status(payload, len) of the input payload
ParseExtended ==
  /\ build_in.kind = "extended"
  /\ dispatched = <<>>
  /\ dispatched' = <<parse_extended_status(build_in.payload, Len(build_in.payload))>>
  /\ UNCHANGED <<EngineVars, recv_buffer_, build_in, stream, fed, env>>

NextParse == ParseCompact \/ ParseExtended

SpecParse == InitParse /\ [][NextParse]_vars

\* C24: for every temperature byte t in 0..255, parse_compact_status and
\* parse_extended_status return a valid status exactly when 40 <= t <= 230.
C24_TempRange ==
  dispatched # <<>> =>
    /\ dispatched[1].valid <=> (40 <= build_in.temp /\ build_in.temp <= 230)
    /\ dispatched[1].valid => dispatched[1].temp = build_in.temp

\* A compact status with temperature byte 40 and an extended one with 230 were accepted
C24_Witness ==
  /\ build_in.kind = "compact"
  /\ build_in.temp = 40
  /\ dispatched # <<>>
  /\ dispatched[1].valid

C24_WitnessExtended ==
  /\ build_in.kind = "extended"
  /\ build_in.temp = 230
  /\ dispatched # <<>>
  /\ dispatched[1].valid

\* An extended status with temperature byte 231 was rejected
C24_WitnessRejected ==
  /\ build_in.kind = "extended"
  /\ build_in.temp = 231
  /\ dispatched # <<>>
  /\ ~dispatched[1].valid

(***************************************************************************)
(* Properties of the heating mode selection                                *)
(***************************************************************************)
MaxNowModes == 300

\* update() while a command sequence runs, connected and registered
TickModes ==
  /\ command_state_ # "IDLE"
  /\ now <= MaxNowModes
  /\ \E dt \in TickSteps :
       /\ ApplyLogged(update(K, now, TRUE, TRUE))
       /\ now' = now + dt
  /\ UNCHANGED CodecVars

\* The user picks any target setpoint and starts heating once; the transport completes
\* the writes
NextModes ==
  \/ /\ command_state_ = "IDLE"
     /\ tx_seq_ = 0
     /\ \E temp_f \in MIN_TEMP_F..MAX_TEMP_F : SetTargetSetpoint(temp_f)
  \/ /\ command_state_ = "IDLE"
     /\ tx_seq_ = 0
     /\ StartHeating
  \/ TickModes
  \/ OnWriteAck(TRUE)

SpecModes == Init /\ [][NextModes]_vars

Near(t, preset) == t - preset <= 1 /\ preset - t <= 1

\* The mode the specification selects for a target setpoint
ExpectedMode(version, t) ==
  IF t = 212 THEN 4
  ELSE IF version = 0 THEN 6
  ELSE IF Near(t, 180) THEN 1
  ELSE IF Near(t, 195) THEN 2
  ELSE IF Near(t, 205) THEN 3
  ELSE 5

\* The send buffer holds a set-mode frame
SetModeInBuffer == Len(send_buffer_.buf) >= 12 /\ At(send_buffer_.buf, 7) = CMD_SET_MODE

\* C25: with protocol version 1 and a target setpoint t in 104..212, start_heating
\* selects boil at 212, green tea for |t - 180| <= 1, oolong for |t - 195| <= 1, coffee
\* for |t - 205| <= 1 and the custom-temperature mode otherwise, which enters the
\* sequence at HeatSetTemp so that set-custom-temp is sent before set-mode; a version-1
\* set-mode frame never carries mode 0x06 and carries temperature byte 0 unless the mode
\* is custom temperature; with protocol version 0 it selects boil at 212 and generic
\* heat at t otherwise, and set-mode is the first command sent.
C25_ModeSelection ==
  LET t == state_.target_setpoint_f
      version == config_.protocol_version
      mode == ExpectedMode(version, t)
      custom == version = 1 /\ mode = 5
  IN /\ command_state_ # "IDLE" => (pending_mode_ = mode /\ pending_temp_f_ = t)
     /\ (command_state_ # "IDLE" /\ command_state_time_ = 0)
          => command_state_ = (IF custom THEN "HEAT_SET_TEMP" ELSE "HEAT_START")
     /\ \A i \in 1..Len(cmd_log) :
          cmd_log[i].cmd = CMD_SET_MODE
            => IF custom THEN i = 2 /\ cmd_log[1].cmd = CMD_SET_MY_TEMP ELSE i = 1
     /\ SetModeInBuffer
          => /\ At(send_buffer_.buf, 10) = mode
             /\ version = 1 => At(send_buffer_.buf, 10) # 6
             /\ At(send_buffer_.buf, 11) = (IF version = 1 /\ mode # 5 THEN 0 ELSE t)

\* Version 1, 150 degrees: set-custom-temp then set-mode (custom temperature, 150) went out
C25_Witness ==
  /\ config_.protocol_version = 1
  /\ state_.target_setpoint_f = 150
  /\ Len(cmd_log) = 2
  /\ cmd_log[1].cmd = CMD_SET_MY_TEMP
  /\ cmd_log[2].cmd = CMD_SET_MODE
  /\ cmd_log[2].ok
  /\ SetModeInBuffer
  /\ At(send_buffer_.buf, 10) = MODE_MY_TEMP
  /\ At(send_buffer_.buf, 11) = 150

\* Version 1, 181 degrees: set-mode (green tea, temperature byte 0) went out first
C25_WitnessPreset ==
  /\ config_.protocol_version = 1
  /\ state_.target_setpoint_f = 181
  /\ Len(cmd_log) = 1
  /\ SetModeInBuffer
  /\ At(send_buffer_.buf, 10) = MODE_GREEN_TEA
  /\ At(send_buffer_.buf, 11) = 0

\* Version 0, 150 degrees: set-mode (generic heat, 150) went out first
C25_WitnessV0 ==
  /\ config_.protocol_version = 0
  /\ state_.target_setpoint_f = 150
  /\ Len(cmd_log) >= 1
  /\ cmd_log[1].cmd = CMD_SET_MODE
  /\ SetModeInBuffer
  /\ At(send_buffer_.buf, 10) = MODE_HEAT
  /\ At(send_buffer_.buf, 11) = 150

(***************************************************************************)
(* Properties of the status frames of the tests                            *)
(***************************************************************************)
\* The compact status packets of test_rx_status_processing
CompactIdlePacket == <<165, 34, 181, 12, 0, 179, 1, 65, 64, 0, 0, 0, 179, 143, 0, 0, 0, 0>>

CompactHeatingPacket == <<165, 34, 29, 12, 0, 104, 1, 65, 64, 0, 1, 1, 180, 111, 0, 0, 0, 0>>

\* A compact status of the least length parse_compact_status accepts
CompactShortestPacket ==
  RxFrame(MESSAGE_HEADER_TYPE, 3, <<1, CMD_CTRL, CMD_TYPE_40, 0, 2, 1, 200, 100, 0>>)

CompactPackets == {CompactIdlePacket, CompactHeatingPacket, CompactShortestPacket}

\* The extended status packets of test_rx_status_processing and test_protocol_parse
ExtendedHoldPacket ==
  <<165, 18, 131, 29, 0, 182, 1, 64, 64, 0, 3, 1, 180, 181, 175, 1, 44, 1, 159, 0, 0, 0, 0,
    88, 2, 0, 0, 0, 0, 0, 44, 1, 0, 0, 1>>

ExtendedBabyPacket ==
  <<165, 18, 139, 29, 0, 20, 1, 64, 64, 0, 0, 0, 104, 178, 104, 0, 0, 0, 0, 0, 0, 0, 0,
    88, 2, 0, 0, 0, 0, 0, 44, 1, 1, 0, 1>>

ExtendedOffBasePacket ==
  <<165, 18, 64, 29, 0, 147, 1, 64, 64, 0, 0, 0, 175, 105, 175, 0, 0, 0, 0, 0, 1, 0, 0,
    196, 14, 0, 0, 0, 0, 0, 52, 8, 0, 0, 1>>

ExtendedOnBasePacket ==
  <<165, 18, 135, 29, 0, 22, 1, 64, 64, 0, 0, 0, 104, 181, 104, 0, 0, 0, 0, 0, 0, 0, 0,
    88, 2, 0, 0, 0, 0, 0, 44, 1, 0, 0, 1>>

ExtendedPackets ==
  {ExtendedHoldPacket, ExtendedBabyPacket, ExtendedOffBasePacket, ExtendedOnBasePacket}

\* Notifications received
MaxRx == 3

\* process_rx_data(data): stream keeps the bytes received last, dispatched the frames
\* they yielded, fed counts the notifications
Receive(data) ==
  /\ fed < MaxRx
  /\ LET k == process_rx_data(K, data)
     IN /\ Apply(k)
        /\ dispatched' = k.frames
  /\ stream' = data
  /\ fed' = fed + 1
  /\ UNCHANGED <<now, cmd_log, build_in, env>>

\* Status packets arriving, the user's target setpoint, and ticks while disconnected
NextStatus ==
  \/ \E data \in CompactPackets \cup ExtendedPackets : Receive(data)
  \/ \E temp_f \in SetpointInputs :
       /\ state_.target_setpoint_f # temp_f
       /\ SetTargetSetpoint(temp_f)
  \/ \E dt \in TickSteps : UpdateCyclic(dt, FALSE, TRUE)

SpecStatus == Init /\ [][NextStatus]_vars

\* C26: the bytes A5 22 B5 0C 00 B3 01 41 40 00 00 00 B3 8F 00 00 00 00 yield exactly one
\* frame (type 0x22, seq 0xB5, payload length 12) and set current_temp 143, kettle
\* setpoint 179, heating false and status_received true; every valid compact status sets
\* the current temperature, the kettle setpoint and heating (stage byte nonzero) and
\* leaves on_base, the hold times, my_temp, baby formula and the target setpoint unchanged.
C26_CompactStatus ==
  [][(fed' # fed /\ stream' \in CompactPackets)
       => /\ Len(dispatched') = 1
          /\ dispatched'[1].frame_type = 34
          /\ dispatched'[1].seq = stream'[3]
          /\ Len(dispatched'[1].payload) = stream'[4]
          /\ state_'.current_temp_f = stream'[14]
          /\ state_'.kettle_setpoint_f = stream'[13]
          /\ state_'.heating = (stream'[11] # 0)
          /\ state_'.status_received
          /\ state_'.on_base = state_.on_base
          /\ state_'.hold_time_seconds = state_.hold_time_seconds
          /\ state_'.remaining_hold_time_seconds = state_.remaining_hold_time_seconds
          /\ state_'.my_temp_f = state_.my_temp_f
          /\ state_'.baby_formula_enabled = state_.baby_formula_enabled
          /\ state_'.target_setpoint_f = state_.target_setpoint_f
          /\ stream' = CompactIdlePacket
               => /\ dispatched'[1].seq = 181
                  /\ Len(dispatched'[1].payload) = 12
                  /\ state_'.current_temp_f = 143
                  /\ state_'.kettle_setpoint_f = 179
                  /\ ~state_'.heating]_vars

\* The idle compact status arrived after an extended one had reported on base and a
\* 300 s hold time and after the user had chosen 150 degrees
C26_Witness ==
  /\ stream = CompactIdlePacket
  /\ state_.current_temp_f = 143
  /\ state_.kettle_setpoint_f = 179
  /\ state_.no_response_count = 0
  /\ state_.on_base
  /\ state_.hold_time_seconds = 300
  /\ state_.remaining_hold_time_seconds = 159
  /\ state_.my_temp_f = 175
  /\ state_.target_setpoint_f = 150

\* C27: an extended status (ack frame, command 0x40, 29-byte payload) is decoded with
\* the configured hold time from payload bytes 10-11 and the remaining hold time from
\* payload bytes 12-13 (low byte first), on-base from payload byte 14 (0x00 = on base)
\* and the baby-formula flag from payload byte 26, and the engine stores these in
\* KettleState; the frame A5 12 83 1D 00 B6 01 40 40 00 03 01 B4 B5 AF 01 2C 01 9F 00 ...
\* yields configured hold time 300 s, remaining hold time 159 s and on_base true.
C27_ExtendedStatus ==
  [][(fed' # fed /\ stream' \in ExtendedPackets)
       => /\ state_'.hold_time_seconds = stream'[17] + stream'[18] * 256
          /\ state_'.remaining_hold_time_seconds = stream'[19] + stream'[20] * 256
          /\ state_'.on_base = (stream'[21] = 0)
          /\ state_'.baby_formula_enabled = (stream'[33] = 1)
          /\ stream' = ExtendedHoldPacket
               => /\ state_'.hold_time_seconds = 300
                  /\ state_'.remaining_hold_time_seconds = 159
                  /\ state_'.on_base]_vars

\* What the parser does with the same frames: the hold times and on-base as C27 says,
\* the baby-formula flag from payload byte 28
C27_FlagFromByte28 ==
  [][(fed' # fed /\ stream' \in ExtendedPackets)
       => /\ state_'.hold_time_seconds = stream'[17] + stream'[18] * 256
          /\ state_'.remaining_hold_time_seconds = stream'[19] + stream'[20] * 256
          /\ state_'.on_base = (stream'[21] = 0)
          /\ state_'.baby_formula_enabled = (stream'[35] = 1)]_vars

\* The extended status of the state test was stored: on base, 300 s, 159 s remaining
C27_Witness ==
  /\ stream = ExtendedHoldPacket
  /\ state_.no_response_count = 0
  /\ state_.on_base
  /\ state_.hold_time_seconds = 300
  /\ state_.remaining_hold_time_seconds = 159

(***************************************************************************)
(* Properties of the set-hold-time payload                                 *)
(***************************************************************************)
\* Hold times tried: every value up to MaxHoldSeconds, the example and the largest
MaxHoldSeconds == 600

HoldTimeInputsAll == (0..MaxHoldSeconds) \cup {2100, 65280, 65535}

HoldTimeSeq == 73

InitHoldTime ==
  /\ InitEngine
  /\ build_in \in {[version |-> config_.protocol_version, seconds |-> s] :
                     s \in HoldTimeInputsAll}
  /\ stream = <<>>
  /\ fed = 0
  /\ env = EmptyEnvelope
  /\ dispatched = <<>>

\* build_set_hold_time_payload(version, seconds, payload), the payload then wrapped as
\* a message frame as assertMessagePayload does
BuildHoldTime ==
  /\ dispatched = <<>>
  /\ dispatched' = <<build_set_hold_time_payload(build_in.version, build_in.seconds)>>
  /\ env' = set_message_payload(
              env, HoldTimeSeq,
              build_set_hold_time_payload(build_in.version, build_in.seconds)).env
  /\ UNCHANGED <<EngineVars, recv_buffer_, build_in, stream, fed>>

NextHoldTime == BuildHoldTime

SpecHoldTime == InitHoldTime /\ [][NextHoldTime]_vars

\* C28: for every seconds value, build_set_hold_time_payload(version, seconds) is the
\* 8-byte payload [version, 0xF2, 0xA3, 0x00, 0x00, enable, seconds low byte, seconds
\* high byte] with enable = 1 exactly when seconds > 0; version 1 with 2100 s, wrapped
\* as a message frame with seq 0x49, is A5 22 49 08 00 14 01 F2 A3 00 00 01 34 08.
C28_HoldTimePayload ==
  dispatched # <<>> =>
    /\ dispatched[1] = <<build_in.version, 242, 163, 0, 0,
                         IF build_in.seconds > 0 THEN 1 ELSE 0,
                         build_in.seconds % 256, build_in.seconds \div 256>>
    /\ (build_in.version = 1 /\ build_in.seconds = 2100)
         => env.buf = <<165, 34, 73, 8, 0, 20, 1, 242, 163, 0, 0, 1, 52, 8>>

\* What the builder does: the same payload with the high byte of seconds before the low
C28_HighByteFirst ==
  dispatched # <<>> =>
    /\ dispatched[1] = <<build_in.version, 242, 163, 0, 0,
                         IF build_in.seconds > 0 THEN 1 ELSE 0,
                         build_in.seconds \div 256, build_in.seconds % 256>>
    /\ (build_in.version = 1 /\ build_in.seconds = 2100)
         => env.buf = <<165, 34, 73, 8, 0, 20, 1, 242, 163, 0, 0, 1, 8, 52>>

\* The payload for version 1 and 2100 s was built and wrapped
C28_Witness ==
  /\ build_in.version = 1
  /\ build_in.seconds = 2100
  /\ dispatched # <<>>
  /\ Len(env.buf) = 14

(***************************************************************************)
(* Properties of compact()                                                 *)
(***************************************************************************)
\* Longest buffer compacted and the number of compact() calls in a row
MaxCompactLen == 12

MaxCompacts == 2

\* Buffers of every length up to MaxCompactLen with the cursor at every place in them
CompactInputs ==
  {e \in {[buf |-> [i \in 1..n |-> (i * 7) % U8], pos |-> p] :
            n \in 0..MaxCompactLen, p \in 0..MaxCompactLen} : e.pos <= Len(e.buf)}

InitCompact ==
  /\ InitEngine
  /\ config_.protocol_version = 1
  /\ build_in \in CompactInputs
  /\ stream = <<>>
  /\ fed = 0
  /\ env = build_in
  /\ dispatched = <<>>

\* compact() on the buffer; fed counts the calls
Compact ==
  /\ fed < MaxCompacts
  /\ env' = compact(env)
  /\ fed' = fed + 1
  /\ UNCHANGED <<EngineVars, recv_buffer_, build_in, stream, dispatched>>

NextCompact == Compact

SpecCompact == InitCompact /\ [][NextCompact]_vars

\* C29: compact() leaves the buffer (contents, size, cursor) unchanged when the cursor is
\* 0, empties it when the cursor has reached the buffer length, and otherwise moves
\* exactly the unread bytes to offset 0 in their order and sets the cursor to 0; a
\* second compact() changes nothing.
C29_Compact ==
  fed >= 1 =>
    /\ build_in.pos = 0 => env = build_in
    /\ (build_in.pos > 0 /\ build_in.pos = Len(build_in.buf))
         => (env.buf = <<>> /\ env.pos = 0)
    /\ (build_in.pos > 0 /\ build_in.pos < Len(build_in.buf))
         => /\ env.pos = 0
            /\ Len(env.buf) = Len(build_in.buf) - build_in.pos
            /\ \A i \in 1..Len(env.buf) : env.buf[i] = build_in.buf[build_in.pos + i]

\* A 12-byte buffer read up to byte 5 was compacted twice: the 7 unread bytes remain
C29_Witness ==
  /\ Len(build_in.buf) = 12
  /\ build_in.pos = 5
  /\ fed = 2
  /\ Len(env.buf) = 7
  /\ env.buf[1] = 42
  /\ env.pos = 0

(***************************************************************************)
(* Properties of a frame that arrives in two parts                         *)
(***************************************************************************)
\* Well-formed frames, each cut after every byte but the last
PrefixFrames == {HelloAckFrame, CompactIdlePacket, ExtendedHoldPacket}

PrefixInputs ==
  UNION {{[frame |-> f, cut |-> n] : n \in 1..(Len(f) - 1)} : f \in PrefixFrames}

InitPrefix ==
  /\ InitEngine
  /\ config_.protocol_version = 1
  /\ build_in \in PrefixInputs
  /\ stream = <<>>
  /\ fed = 0
  /\ env = EmptyEnvelope
  /\ dispatched = <<>>

\* append() of the first cut bytes of the frame, then of the rest
AppendPart ==
  /\ fed \in {0, 2}
  /\ env' = append(env, IF fed = 0 THEN Slice(build_in.frame, 0, build_in.cut)
                        ELSE Slice(build_in.frame, build_in.cut,
                                   Len(build_in.frame) - build_in.cut)).env
  /\ fed' = fed + 1
  /\ UNCHANGED <<EngineVars, recv_buffer_, build_in, stream, dispatched>>

\* process_next_frame() after each append
NextFrame ==
  /\ fed \in {1, 3}
  /\ LET r == process_next_frame(env, MAX_PAYLOAD_SIZE)
     IN /\ env' = r.env
        /\ dispatched' = Append(dispatched, r.info)
  /\ fed' = fed + 1
  /\ UNCHANGED <<EngineVars, recv_buffer_, build_in, stream>>

NextPrefix == AppendPart \/ NextFrame

SpecPrefix == InitPrefix /\ [][NextPrefix]_vars

\* process_next_frame on the prefix alone reported no frame, left the cursor at the magic
\* byte and kept the prefix
PrefixKept ==
  /\ ~dispatched[1].valid
  /\ env.pos = 0
  /\ env.buf = Slice(build_in.frame, 0, build_in.cut)

\* process_next_frame after the rest arrived returned the frame
FrameReturned ==
  /\ dispatched[2].valid
  /\ dispatched[2].frame_type = build_in.frame[2]
  /\ dispatched[2].seq = build_in.frame[3]
  /\ dispatched[2].payload_len = Len(build_in.frame) - 6
  /\ SubSeq(dispatched[2].payload, 1, dispatched[2].payload_len)
       = Slice(build_in.frame, 6, Len(build_in.frame) - 6)

\* C30: for every well-formed frame F and every proper non-empty prefix P of F buffered
\* at the cursor, ending inside the 6-byte header or inside the payload,
\* process_next_frame reports no frame, leaves the cursor at the magic byte that starts P
\* and discards none of P; once the rest of F has been appended the next call returns F.
C30_PrefixWaits ==
  /\ fed = 2 => PrefixKept
  /\ fed = 4 => FrameReturned

\* What the code does: the same for a prefix that holds the whole 6-byte header
C30_HeaderBufferedWaits ==
  build_in.cut >= 6 =>
    /\ fed = 2 => PrefixKept
    /\ fed = 4 => FrameReturned

\* and a prefix that ends inside the header is passed over, and the frame is not returned
C30_HeaderCutLost ==
  build_in.cut < 6 =>
    /\ fed = 2 => (~dispatched[1].valid /\ env.pos = build_in.cut)
    /\ fed = 4 => ~dispatched[2].valid

\* A frame cut inside its header went through both calls
C30_Witness ==
  /\ build_in.frame = CompactIdlePacket
  /\ build_in.cut = 3
  /\ fed = 4
  /\ Len(dispatched) = 2
  /\ env.buf = CompactIdlePacket

(***************************************************************************)
(* Properties of rejected frame candidates                                 *)
(***************************************************************************)
\* Bytes already consumed in front of the candidate
MaxLead == 3

\* Declared payload lengths above the maximum payload size
OversizeLens == {MAX_PAYLOAD_SIZE + 1, 2 * MAX_PAYLOAD_SIZE, U8 * U8 - 1}

\* A header that declares len payload bytes
OversizeHeader(len) == <<FRAME_MAGIC, MESSAGE_HEADER_TYPE, 1, len % U8, len \div U8, 0>>

\* A complete frame whose checksum byte is off by delta
BadChecksum(frame, delta) == [frame EXCEPT ![6] = (@ + delta) % U8]

RescanFrames == {HelloAckFrame, CompactIdlePacket}

\* A rejected candidate at the cursor, and the well-formed frame good (<<>> for none) at
\* the next magic byte: behind the candidate, or inside the bytes the candidate claims
RescanStreams ==
  {[bytes |-> OversizeHeader(n) \o g, good |-> g] : n \in OversizeLens, g \in RescanFrames}
  \cup {[bytes |-> BadChecksum(f, d) \o g, good |-> g] :
          f \in RescanFrames, d \in {1, 128, 255}, g \in RescanFrames}
  \cup {[bytes |-> BadChecksum(RxFrame(MESSAGE_HEADER_TYPE, 7, g), d), good |-> g] :
          d \in {1, 128, 255}, g \in RescanFrames}
  \cup {[bytes |-> <<FRAME_MAGIC>> \o g, good |-> g] : g \in RescanFrames}
  \cup {[bytes |-> BadChecksum(f, d), good |-> <<>>] : f \in RescanFrames, d \in {1, 128, 255}}
  \cup {[bytes |-> OversizeHeader(n), good |-> <<>>] : n \in OversizeLens}

InitRescan ==
  /\ InitEngine
  /\ config_.protocol_version = 1
  /\ build_in \in {[bytes |-> s.bytes, good |-> s.good, lead |-> l] :
                     s \in RescanStreams, l \in {0, MaxLead}}
  /\ stream = <<>>
  /\ fed = 0
  /\ env = [buf |-> Zeros(build_in.lead) \o build_in.bytes, pos |-> build_in.lead]
  /\ dispatched = <<>>

\* One process_next_frame call with the rejected candidate at the cursor
Rescan ==
  /\ dispatched = <<>>
  /\ LET r == process_next_frame(env, MAX_PAYLOAD_SIZE)
     IN /\ env' = r.env
        /\ dispatched' = <<r.info>>
  /\ UNCHANGED <<EngineVars, recv_buffer_, build_in, stream, fed>>

NextRescan == Rescan

SpecRescan == InitRescan /\ [][NextRescan]_vars

\* The offset in bytes of the first magic byte after the one at offset 0 (Len if none)
NextMagic(bytes) ==
  LET later == {i \in 1..(Len(bytes) - 1) : bytes[i + 1] = 165}
  IN IF later = {} THEN Len(bytes) ELSE CHOOSE i \in later : \A j \in later : i <= j

\* C31: when the candidate at the cursor declares a payload length above the maximum
\* payload size, or is fully buffered and fails its checksum, process_next_frame moves
\* the cursor on by one byte and goes on scanning in the same call: the next magic byte
\* after the rejected one is examined as a frame start, so a well-formed frame that
\* starts there is returned by this call, and with no further magic byte the call ends
\* with no frame and the cursor at the end of the buffer.
C31_RejectAndRescan ==
  dispatched # <<>> =>
    LET at == NextMagic(build_in.bytes)
        good == build_in.good
    IN IF good # <<>>
       THEN /\ SubSeq(build_in.bytes, at + 1, at + Len(good)) = good
            /\ dispatched[1].valid
            /\ dispatched[1].frame_type = good[2]
            /\ dispatched[1].seq = good[3]
            /\ dispatched[1].payload_len = Len(good) - 6
            /\ SubSeq(dispatched[1].payload, 1, dispatched[1].payload_len)
                 = SubSeq(good, 7, Len(good))
            /\ env.pos = build_in.lead + at + Len(good)
       ELSE /\ at = Len(build_in.bytes)
            /\ ~dispatched[1].valid
            /\ env.pos = Len(env.buf)

\* A frame with a wrong checksum carried the compact status packet as its payload: the
\* call returned the packet and left the cursor behind it, at the end of the buffer
C31_Witness ==
  /\ dispatched # <<>>
  /\ build_in.lead = MaxLead
  /\ Len(build_in.bytes) = 6 + Len(CompactIdlePacket)
  /\ build_in.good = CompactIdlePacket
  /\ dispatched[1].valid
  /\ dispatched[1].seq = 181
  /\ env.pos = Len(env.buf)

\* A header declaring 257 payload bytes stood in front of the hello acknowledgement
C31_WitnessOversize ==
  /\ dispatched # <<>>
  /\ build_in.bytes = OversizeHeader(MAX_PAYLOAD_SIZE + 1) \o HelloAckFrame
  /\ dispatched[1].valid
  /\ dispatched[1].frame_type = ACK_HEADER_TYPE

(***************************************************************************)
(* Properties of the handshake timeout                                     *)
(***************************************************************************)
\* Clock advance between two update() calls while the handshake waits, in ms
HandshakeTick == 1000

\* The clock reading after which no update() call is explored
MaxNowTimeout == 7000

\* Frames numbered before the periodic polls stop
MaxTxSeqTimeout == 2

\* update(now_ms, true, true) once a second
TickTimeout ==
  /\ now <= MaxNowTimeout
  /\ tx_seq_ < MaxTxSeqTimeout
  /\ ApplyLogged(update(K, now, TRUE, TRUE))
  /\ now' = now + HandshakeTick
  /\ UNCHANGED CodecVars

\* What the device sends while the handshake waits: the acknowledgement of the handshake
\* (seq 0), an acknowledgement with another sequence number and a status message
TimeoutRxInputs == {HelloAckFrame, MyTempAckFrame, CompactStatusFrame}

\* A handshake is requested while no sequence is in progress, before the first tick or
\* later; its write completions and its acknowledgement may or may not arrive
NextTimeout ==
  \/ TickTimeout
  \/ OnWriteAck(TRUE)
  \/ \E data \in TimeoutRxInputs : ProcessRxData(data)
  \/ /\ command_state_ = "IDLE"
     /\ SendHello(FALSE)

SpecTimeout == Init /\ [][NextTimeout]_vars

\* The handshake frame was handed to the transport at HandshakeSubmittedAt() and no
\* acknowledgement with its sequence number has arrived since
HandshakeUnanswered ==
  /\ command_state_ = "HANDSHAKE_WAIT_CHUNKS"
  /\ waiting_for_ack_complete_
  /\ waiting_for_ack_seq_ = 0
  /\ Len(cmd_log) = 1
  /\ cmd_log[1].state = "HANDSHAKE_START"
  /\ cmd_log[1].ok

\* C32: when no ACK with the handshake's sequence number has arrived within the 5 s
\* handshake timeout after the handshake frame was submitted, the next tick forces the
\* command state to Idle; the handshake frame is not sent again and the handshake's own
\* status poll is not issued.
C32_HandshakeTimeout ==
  [][(TickTimeout /\ HandshakeUnanswered /\ now - cmd_log[1].at >= HANDSHAKE_TIMEOUT_MS)
       => (command_state_' = "IDLE" /\ NewSends = <<>>)]_vars

\* The same with the 5 s counted from the entry timestamp the state machine holds, once
\* it is nonzero: this is what handle_handshake_wait_chunks() does
C32_TimeoutFromEntryStamp ==
  [][(TickTimeout /\ HandshakeUnanswered /\ command_state_time_ # 0
      /\ now - command_state_time_ >= HANDSHAKE_TIMEOUT_MS)
       => (command_state_' = "IDLE" /\ NewSends = <<>>)]_vars

\* A handshake submitted at clock reading 0 has its entry timestamp set again by the tick
\* that follows: 5 s after the submission the state machine still waits
C32_EntryStampMoved ==
  /\ HandshakeUnanswered
  /\ cmd_log[1].at = 0
  /\ command_state_time_ = HandshakeTick
  /\ now = HANDSHAKE_TIMEOUT_MS + HandshakeTick

\* A handshake submitted at a nonzero clock reading has timed out after 5 s
C32_Witness ==
  /\ command_state_ = "IDLE"
  /\ command_state_time_ = HandshakeTick
  /\ waiting_for_ack_complete_
  /\ now = HANDSHAKE_TIMEOUT_MS + 2 * HandshakeTick
  /\ tx_seq_ = 0
  /\ inflight > 0

(***************************************************************************)
(* Properties of the acknowledgement wait                                  *)
(***************************************************************************)
MaxNowAck == 100

\* Sequence numbers and error codes of the acknowledgements the device sends
AckSeqs == {0, 255}
AckErrorCodes == {0, 7}

\* Acknowledgements of the handshake with and without the error code byte, and a status
\* message that carries the awaited sequence number
AckFrames ==
  {RxFrame(ACK_HEADER_TYPE, s, AckPayload(CMD_HELLO, CMD_TYPE_D1, e)) :
     s \in AckSeqs, e \in AckErrorCodes}
  \cup {RxFrame(ACK_HEADER_TYPE, s, <<1, CMD_HELLO, CMD_TYPE_D1, 0>>) : s \in AckSeqs}

AckWaitRxInputs == AckFrames \cup {RxFrame(MESSAGE_HEADER_TYPE, 0, CompactStatusPayload)}

\* Handshakes are requested one after the other; the device answers each with any of the
\* frames above
NextAckWait ==
  \/ /\ now <= MaxNowAck
     /\ \E dt \in TickSteps : Update(dt, TRUE, TRUE)
  \/ OnWriteAck(TRUE)
  \/ \E data \in AckWaitRxInputs : Receive(data)
  \/ /\ command_state_ = "IDLE"
     /\ SendHello(FALSE)

SpecAckWait == Init /\ [][NextAckWait]_vars

\* C33: while the ACK of a request is awaited, a received ACK frame with another
\* sequence number neither ends the wait nor changes the recorded ACK error code; only an
\* ACK with the awaited sequence number ends the wait, and it records payload byte 4 as
\* the error code, 0 when the payload has no byte 4.
C33_AckCorrelation ==
  /\ [][(fed' # fed /\ waiting_for_ack_complete_ /\ stream' \in AckFrames)
          => IF stream'[3] = waiting_for_ack_seq_
             THEN /\ ~waiting_for_ack_complete_'
                  /\ last_ack_error_code_' = (IF stream'[4] > 4 THEN stream'[11] ELSE 0)
             ELSE /\ waiting_for_ack_complete_'
                  /\ last_ack_error_code_' = last_ack_error_code_]_vars
  /\ [][(waiting_for_ack_complete_ /\ ~waiting_for_ack_complete_')
          => /\ fed' # fed
             /\ stream'[2] = ACK_HEADER_TYPE
             /\ stream'[3] = waiting_for_ack_seq_]_vars

\* A second handshake waits with the error code 7 of the first one recorded, after an
\* ACK with sequence number 255 and error code 0 was received
C33_Witness ==
  /\ waiting_for_ack_complete_
  /\ last_ack_error_code_ = 7
  /\ fed = 2
  /\ stream = RxFrame(ACK_HEADER_TYPE, 255, AckPayload(CMD_HELLO, CMD_TYPE_D1, 0))
  /\ command_state_ = "HANDSHAKE_WAIT_CHUNKS"

\* An ACK with the awaited sequence number and a 4-byte payload ended the wait of a
\* second handshake and recorded 0 over the error code 7
C33_WitnessNoCode ==
  /\ ~waiting_for_ack_complete_
  /\ last_ack_error_code_ = 0
  /\ fed = 3
  /\ stream = RxFrame(ACK_HEADER_TYPE, 0, <<1, CMD_HELLO, CMD_TYPE_D1, 0>>)
  /\ dispatched # <<>>
  /\ command_state_ = "HANDSHAKE_WAIT_CHUNKS"

(***************************************************************************)
(* Properties of rejected settings                                         *)
(***************************************************************************)
\* C34: a pending flag is true only while a set command for its field was accepted for
\* transmission and is not yet confirmed: when the command that set_my_temp,
\* set_hold_time or set_baby_formula_enabled issues is rejected because the send session
\* is busy, the setter's pending flag is false when the setter returns.
C34_RejectedNotPending ==
  [][/\ ((SessionActive /\ \E temp_f \in MyTempInputs : SetMyTemp(temp_f))
           => ~pending_my_temp_')
     /\ ((SessionActive /\ \E seconds \in SettingsHoldTimeInputs : SetHoldTime(seconds))
           => ~pending_hold_time_')
     /\ ((SessionActive /\ \E enabled \in BOOLEAN : SetBabyFormulaEnabled(enabled))
           => ~pending_baby_formula_')]_vars

\* set_hold_time(600) was called while the chunk of the set-my-temp frame awaited its
\* write completion: the frame in the send buffer is still the set-my-temp frame (seq 1)
\* and both flags are set
C34_RejectedPending ==
  /\ pending_hold_time_
  /\ pending_my_temp_
  /\ state_.hold_time_seconds = 600
  /\ tx_seq_ = 2
  /\ waiting_for_write_ack_
  /\ Len(frame_handed) = 1
  /\ At(send_buffer_.buf, 2) = 1

(***************************************************************************)
(* Properties of steps whose frame was refused                             *)
(***************************************************************************)
\* The log holds a send_command call for cmd that handed the frame to the transport
Handed(log, cmd) == \E i \in 1..Len(log) : log[i].cmd = cmd /\ log[i].ok

\* C35: a command sequence never advances past a step whose frame was not accepted for
\* transmission: after start_heating the command state does not pass HeatStart and
\* return to Idle through HeatComplete unless the set-mode frame and, when the preamble
\* is required, the set-custom-temp frame were handed to the transport.
C35_NoAdvanceUnsent ==
  [][(command_state_ = "HEAT_COMPLETE" /\ command_state_' = "IDLE")
       => /\ Handed(cmd_log', CMD_SET_MODE)
          /\ (NeedsPreamble => Handed(cmd_log', CMD_SET_MY_TEMP))]_vars

\* The heat-start sequence has ended in Idle with the set-mode frame refused: the log
\* holds the one refused send_command call of HeatStart
C35_UnsentCompleted ==
  /\ command_state_ = "IDLE"
  /\ Len(cmd_log) = 1
  /\ cmd_log[1].cmd = CMD_SET_MODE
  /\ cmd_log[1].state = "HEAT_START"
  /\ ~cmd_log[1].ok

(***************************************************************************)
(* Properties of the re-dispatch within one tick                           *)
(***************************************************************************)
MaxNowDispatch == 250

MaxTxSeqDispatch == 3

\* The three command sequences, each requested while no sequence is in progress, with
\* the handshake's acknowledgement and the write completions arriving or not
NextDispatch ==
  \/ /\ now <= MaxNowDispatch
     /\ tx_seq_ < MaxTxSeqDispatch
     /\ \E dt \in TickSteps : Update(dt, TRUE, TRUE)
  \/ OnWriteAck(TRUE)
  \/ ProcessRxData(HelloAckFrame)
  \/ /\ command_state_ = "IDLE"
     /\ \/ SendHello(FALSE)
        \/ StartHeating
        \/ StopHeating
        \/ \E temp_f \in SetpointInputs : SetTargetSetpoint(temp_f)

SpecDispatch == Init /\ [][NextDispatch]_vars

\* The states process_command_state_machine(now_ms) dispatches on, in order, when it is
\* called with the engine as k: the state at entry, then the state of every recursive
\* call.  The list is cut after calls entries.
RECURSIVE DispatchTrace(_, _, _)
DispatchTrace(k, now_ms, calls) ==
  IF calls = 0 THEN <<>>
  ELSE LET k1 == IF k.command_state_time_ = 0
                 THEN [k EXCEPT !.command_state_time_ = now_ms] ELSE k
           k2 == dispatch_state(k1, k1.command_state_, now_ms,
                                now_ms - k1.command_state_time_)
       IN <<k1.command_state_>>
          \o (IF k2.command_state_ # k1.command_state_
              THEN DispatchTrace(k2, now_ms, calls - 1) ELSE <<>>)

\* The dispatches of the tick that update(now, true, true) is about to run
TickTrace == DispatchTrace(track_online_status(K), now, Cardinality(CommandStates) + 1)

\* C36: within one tick the state machine is dispatched again after each transition, so
\* that transitions without a delay settle in the same tick, and this always ends: the
\* dispatches of one tick are never more than the declared command states, no state is
\* dispatched twice, and the tick leaves the machine in the last state dispatched (or in
\* Idle, by the watchdog).
C36_DispatchTerminates ==
  LET trace == TickTrace
  IN /\ Len(trace) <= Cardinality(CommandStates)
     /\ \A i, j \in 1..Len(trace) : trace[i] = trace[j] => i = j
     /\ process_command_state_machine(track_online_status(K), now).command_state_
          \in {trace[Len(trace)], "IDLE"}

\* The handshake's ACK and write completion have arrived: the next tick dispatches
\* HandshakeWaitChunks, HandshakePoll and Idle
C36_Witness ==
  /\ command_state_ = "HANDSHAKE_WAIT_CHUNKS"
  /\ TickTrace = <<"HANDSHAKE_WAIT_CHUNKS", "HANDSHAKE_POLL", "IDLE">>

(***************************************************************************)
(* Properties of the periodic status poll                                  *)
(***************************************************************************)
MaxNowPoll == 250

MaxTxSeqPoll == 3

\* update(now_ms, connected, registration_sent): build_in keeps the call's arguments and
\* dispatched every send_command call it made, with the command state at the call
UpdateObserved(dt, connected, registration_sent) ==
  /\ now <= MaxNowPoll
  /\ tx_seq_ < MaxTxSeqPoll
  /\ LET k == update(K, now, connected, registration_sent)
     IN /\ ApplyLogged(k)
        /\ dispatched' = k.sends
  /\ build_in' = [connected |-> connected, registration_sent |-> registration_sent]
  /\ now' = now + dt
  /\ UNCHANGED <<stream, fed, env>>

\* Ticks in every connection state, with a handshake or a stop sequence requested while
\* no sequence is in progress
NextPoll ==
  \/ \E dt \in TickSteps, connected \in BOOLEAN, registration_sent \in BOOLEAN :
       UpdateObserved(dt, connected, registration_sent)
  \/ OnWriteAck(TRUE)
  \/ ProcessRxData(HelloAckFrame)
  \/ /\ command_state_ = "IDLE"
     /\ \/ SendHello(FALSE)
        \/ StopHeating

SpecPoll == Init /\ [][NextPoll]_vars

\* The send_command calls update() made itself, after the state machine had run
PeriodicPolls(sends) == SelectSeq(sends, LAMBDA e : e.state = "IDLE")

\* C37: update() issues the periodic status poll only when connected, with the
\* registration sent, the command state Idle after the state machine has run and no send
\* session active; when not connected or the registration is not sent, update() hands
\* nothing to the transport and does not advance the command state, and still performs
\* the liveness tracking.
C37_PeriodicPoll ==
  [][now' # now
       => /\ PeriodicPolls(dispatched') # <<>>
               => /\ build_in'.connected
                  /\ build_in'.registration_sent
                  /\ command_state_' = "IDLE"
                  /\ ~SessionActive
                  /\ \A i \in 1..Len(dispatched') :
                       dispatched'[i].state # "IDLE" => ~dispatched'[i].ok
                  /\ Len(PeriodicPolls(dispatched')) = 1
                  /\ PeriodicPolls(dispatched')[1].cmd = CMD_POLL
          /\ (~build_in'.connected \/ ~build_in'.registration_sent)
               => /\ dispatched' = <<>>
                  /\ frame_handed' = frame_handed
                  /\ inflight' = inflight
                  /\ tx_seq_' = tx_seq_
                  /\ command_state_' = command_state_
                  /\ command_state_time_' = command_state_time_
                  /\ state_' = track_online_status(K).state_
                  /\ state_'.no_response_count =
                       (IF state_.no_response_count < NO_RESPONSE_THRESHOLD
                        THEN state_.no_response_count + 1 ELSE state_.no_response_count)]_vars

\* A tick without registration found a requested handshake and an idle transport: it
\* counted the missing response and sent nothing
C37_Witness ==
  /\ build_in # <<>>
  /\ build_in.connected
  /\ ~build_in.registration_sent
  /\ command_state_ = "HANDSHAKE_START"
  /\ dispatched = <<>>
  /\ state_.no_response_count = 2
  /\ tx_seq_ = 1
  /\ ~SessionActive

\* A connected and registered tick issued the periodic status poll
C37_WitnessPolled ==
  /\ build_in # <<>>
  /\ build_in.connected
  /\ build_in.registration_sent
  /\ Len(dispatched) = 1
  /\ dispatched[1].state = "IDLE"
  /\ dispatched[1].ok
  /\ command_state_ = "IDLE"

(***************************************************************************)
(* Properties of frames with a payload shorter than two bytes              *)
(***************************************************************************)
MaxTxSeqShort == 2

ShortSeq == 9

\* Well-formed frames with an empty or a 1-byte payload
ShortFrames ==
  {RxFrame(t, ShortSeq, p) : t \in {ACK_HEADER_TYPE, MESSAGE_HEADER_TYPE},
                             p \in {<<>>, <<1>>}}

\* The two bytes behind the frame in buffer_: bytes of the same notification, or, when
\* the frame ends the buffered data, whatever buffer_ holds beyond size_
FollowingBytes ==
  {<<c, c>> : c \in {CMD_SET_MY_TEMP, CMD_SET_BABY_FORMULA, CMD_CTRL}}

ShortInputs == {f \o b : f \in ShortFrames, b \in FollowingBytes}

\* Settings are made and frames with short payloads arrive
NextShort ==
  \/ \E data \in ShortInputs : Receive(data)
  \/ OnWriteAck(TRUE)
  \/ /\ tx_seq_ < MaxTxSeqShort
     /\ \/ \E seconds \in SettingsHoldTimeInputs : SetHoldTime(seconds)
        \/ \E temp_f \in MyTempInputs : SetMyTemp(temp_f)
        \/ \E enabled \in BOOLEAN : SetBabyFormulaEnabled(enabled)

SpecShort == Init /\ [][NextShort]_vars

\* C38: frame dispatch inspects payload[1] only for frames whose payload has two bytes
\* or more: a received frame with an empty or 1-byte payload never changes KettleState
\* or a pending flag, whatever bytes follow it in the receive buffer.
C38_ShortFrameIgnored ==
  [][(fed' # fed /\ stream' \in ShortInputs)
       => /\ state_' = state_
          /\ pending_my_temp_' = pending_my_temp_
          /\ pending_hold_time_' = pending_hold_time_
          /\ pending_baby_formula_' = pending_baby_formula_]_vars

\* KettleState is kept: the status parsers refuse a payload this short
C38_ShortFrameKeepsState ==
  [][(fed' # fed /\ stream' \in ShortInputs) => state_' = state_]_vars

\* set_my_temp(150) was pending when an ACK frame with an empty payload arrived, followed
\* by two bytes 0xF3 that belong to no frame: the flag is cleared
C38_FlagCleared ==
  /\ ~pending_my_temp_
  /\ state_.my_temp_f = 150
  /\ tx_seq_ = 1
  /\ fed = 1
  /\ stream = RxFrame(ACK_HEADER_TYPE, ShortSeq, <<>>) \o <<CMD_SET_MY_TEMP, CMD_SET_MY_TEMP>>
  /\ Len(dispatched) = 1
  /\ dispatched[1].payload = <<>>

(***************************************************************************)
(* Properties of the temperature settings' range                           *)
(***************************************************************************)
MaxTxSeqRange == 2

\* Temperatures the user asks for: below, at and above the ends of the settable range
RangeTemps == {0, MIN_TEMP_F - 1, MIN_TEMP_F, 150, MAX_TEMP_F, MAX_TEMP_F + 1, U8 - 1}

\* Extended statuses whose my-temp byte (payload[8]) is in and out of the settable range,
\* and one that ends before it
RangeStatusFrames ==
  {RxFrame(ACK_HEADER_TYPE, 3, [ExtendedStatusPayload EXCEPT ![9] = t]) :
     t \in {0, MIN_TEMP_F - 1, MIN_TEMP_F, MAX_TEMP_F, MAX_TEMP_F + 1}}
  \cup {RxFrame(ACK_HEADER_TYPE, 3, SubSeq(ExtendedStatusPayload, 1, 8)),
        CompactStatusFrame, MyTempAckFrame}

\* Setter calls and received status frames in any order
NextRange ==
  \/ \E data \in RangeStatusFrames : Receive(data)
  \/ OnWriteAck(TRUE)
  \/ \E temp_f \in RangeTemps :
       /\ state_.target_setpoint_f # ClampTemp(temp_f)
       /\ SetTargetSetpoint(temp_f)
  \/ /\ tx_seq_ < MaxTxSeqRange
     /\ \E temp_f \in RangeTemps : SetMyTemp(temp_f)

SpecRange == Init /\ [][NextRange]_vars

\* C39: in every reachable state, after any sequence of setter calls and received status
\* frames, my_temp_f lies in 104..212 and target_setpoint_f lies in 104..212.
C39_TempRanges ==
  /\ state_.my_temp_f \in MIN_TEMP_F..MAX_TEMP_F
  /\ state_.target_setpoint_f \in MIN_TEMP_F..MAX_TEMP_F

\* The target setpoint stays in range, and so does my_temp_f while its flag is pending
C39_SettersInRange ==
  /\ state_.target_setpoint_f \in MIN_TEMP_F..MAX_TEMP_F
  /\ pending_my_temp_ => state_.my_temp_f \in MIN_TEMP_F..MAX_TEMP_F

\* An extended status whose my-temp byte is 213 was applied: my_temp_f is 0
C39_MyTempZero ==
  /\ state_.my_temp_f = 0
  /\ state_.status_received
  /\ state_.current_temp_f = 181
  /\ fed = 1
  /\ stream = RxFrame(ACK_HEADER_TYPE, 3, [ExtendedStatusPayload EXCEPT ![9] = MAX_TEMP_F + 1])

(***************************************************************************)
(* Properties of the transmit sequence number                              *)
(***************************************************************************)
\* next_tx_seq calls explored from each starting value
MaxSeqCalls == 2

\* Sequence numbers of the frame received last
SeqRxInputs == {0, 1, U8 - 2, U8 - 1}

\* tx_seq_ at any value of its cycle, last_rx_seq_ as the frame received last set it
InitSeq ==
  /\ InitEngine
  /\ config_.protocol_version = 1
  /\ build_in \in {[tx_seq_ |-> t, last_rx_seq_ |-> r] : t \in 0..(U8 - 1), r \in SeqRxInputs}
  /\ stream = <<>>
  /\ fed = 0
  /\ env = EmptyEnvelope
  /\ dispatched = <<>>

\* One next_tx_seq() call; dispatched keeps the values returned
NextTxSeq ==
  /\ fed < MaxSeqCalls
  /\ LET k == next_tx_seq([K EXCEPT !.tx_seq_ = build_in.tx_seq_,
                                    !.last_rx_seq_ = build_in.last_rx_seq_])
     IN /\ build_in' = [build_in EXCEPT !.tx_seq_ = k.tx_seq_]
        /\ dispatched' = Append(dispatched, k.tx_seq_)
  /\ fed' = fed + 1
  /\ UNCHANGED <<EngineVars, recv_buffer_, stream, env>>

\* A frame with sequence number seq is dispatched between two calls
FrameSeen(seq) ==
  /\ fed = 1
  /\ build_in.last_rx_seq_ # seq
  /\ build_in' = [build_in EXCEPT !.last_rx_seq_ = seq]
  /\ UNCHANGED <<EngineVars, recv_buffer_, stream, fed, env, dispatched>>

NextSeq ==
  \/ NextTxSeq
  \/ \E seq \in SeqRxInputs : FrameSeen(seq)

SpecSeq == InitSeq /\ [][NextSeq]_vars

\* C40: every call of next_tx_seq changes the transmit sequence number: the value it
\* returns differs from the previous call's, also across the 8-bit wrap and across the
\* resynchronisation to last_rx_seq + 1 that is taken when the transmit sequence number
\* is 0 and last_rx_seq is not.
C40_SeqChanges ==
  /\ [][fed' # fed => build_in'.tx_seq_ # build_in.tx_seq_]_vars
  /\ [](Len(dispatched) = 2 => dispatched[1] # dispatched[2])

\* Every call but the resynchronisation from last_rx_seq 255 changes the number, by one
\* or to last_rx_seq + 1, and keeps it a byte
C40_SeqChangesBut255 ==
  [][fed' # fed
       => /\ build_in'.tx_seq_ \in 0..(U8 - 1)
          /\ IF build_in.tx_seq_ = 0 /\ build_in.last_rx_seq_ # 0
             THEN build_in'.tx_seq_ = (build_in.last_rx_seq_ + 1) % U8
             ELSE build_in'.tx_seq_ = (build_in.tx_seq_ + 1) % U8
          /\ (build_in.tx_seq_ = 0 /\ build_in.last_rx_seq_ = U8 - 1)
               \/ build_in'.tx_seq_ # build_in.tx_seq_]_vars

\* The call at 255 wrapped to 0, and with the frame received last numbered 255 the call
\* after it returned 0 again
C40_SameTwice ==
  /\ dispatched = <<0, 0>>
  /\ build_in.last_rx_seq_ = U8 - 1
  /\ build_in.tx_seq_ = 0

====
